---- MODULE Spec2Model ----
(***************************************************************************)
(* Signed-webhook verification and deferred-response dispatch of the       *)
(* slackbot-ai reword command.                                             *)
(*                                                                         *)
(* Strings that the code inspects character by character (headers, raw     *)
(* bodies, signatures) are sequences of one-character strings; texts that  *)
(* are only concatenated and compared (renderings, error descriptions) are *)
(* TLA+ strings.                                                           *)
(***************************************************************************)
EXTENDS Integers, Sequences, FiniteSets, TLC

\* ------------------------------------------------------------------------
\* Bounds of the model
\* ------------------------------------------------------------------------

\* Length, in bytes, of the digest of the idealised MAC (shorter inputs are
\* padded to it).
DigestLen == 36

\* Number of requests in flight at once.
NumReq == 2

\* ------------------------------------------------------------------------
\* Characters and strings
\* ------------------------------------------------------------------------

\* The printable ASCII characters, in code order starting at 32 (code 96
\* is held by a placeholder).
Printable ==
  <<" ", "!", "\"", "#", "$", "%", "&", "'", "(", ")", "*", "+", ",", "-", ".", "/", "0", "1", "2", "3", "4", "5", "6", "7", "8", "9", ":", ";", "<", "=", ">", "?">> \o
  <<"@", "A", "B", "C", "D", "E", "F", "G", "H", "I", "J", "K", "L", "M", "N", "O", "P", "Q", "R", "S", "T", "U", "V", "W", "X", "Y", "Z", "[", "\\", "]", "^", "_">> \o
  <<"(grave)", "a", "b", "c", "d", "e", "f", "g", "h", "i", "j", "k", "l", "m", "n", "o", "p", "q", "r", "s", "t", "u", "v", "w", "x", "y", "z", "{", "|", "}", "~">>

Chars == {Printable[i] : i \in 1..Len(Printable)}

\* String.prototype.charCodeAt for one character.
CharCodeTable == [c \in Chars |-> 31 + (CHOOSE i \in 1..Len(Printable) : Printable[i] = c)]

charCodeAt(s, i) == CharCodeTable[s[i]]

\* String.fromCharCode, for the codes of printable characters.
fromCharCode(n) == Printable[n - 31]

\* A character sequence as a TLA+ string.
RECURSIVE Str(_)
Str(s) == IF s = <<>> THEN "" ELSE Head(s) \o Str(Tail(s))

\* The header value of an absent header (Headers.get returns null).
NULL == <<"null-header">>

\* JavaScript falsiness of a string-or-null value: null and "" are falsy.
IsFalsy(s) == s = NULL \/ s = <<>>

\* Bitwise operators of JavaScript on non-negative integers.
RECURSIVE BitXor(_, _)
BitXor(a, b) ==
  IF a = 0 THEN b
  ELSE IF b = 0 THEN a
  ELSE (((a % 2) + (b % 2)) % 2) + (2 * BitXor(a \div 2, b \div 2))

RECURSIVE BitOr(_, _)
BitOr(a, b) ==
  IF a = 0 THEN b
  ELSE IF b = 0 THEN a
  ELSE (IF (a % 2) = 1 \/ (b % 2) = 1 THEN 1 ELSE 0) + (2 * BitOr(a \div 2, b \div 2))

\* ------------------------------------------------------------------------
\* Signature Verifier (Web Crypto implementation)
\* ------------------------------------------------------------------------

V0_EQ == <<"v", "0", "=">>
V0_COLON == <<"v", "0", ":">>

HexChars == <<"0", "1", "2", "3", "4", "5", "6", "7", "8", "9", "a", "b", "c", "d", "e", "f">>

\* Number.prototype.toString(16) of a byte.
ToString16(b) ==
  IF b < 16 THEN <<HexChars[b + 1]>>
  ELSE <<HexChars[(b \div 16) + 1], HexChars[(b % 16) + 1]>>

\* String.prototype.padStart(2, "0").
PadStart2(s) == IF Len(s) < 2 THEN <<"0">> \o s ELSE s

\* bufferToHex: every byte mapped to two hexadecimal digits, then joined
\* (hex[i] is the join of the first i bytes).
bufferToHex(buffer) ==
  LET hex[i \in 0..Len(buffer)] ==
        IF i = 0 THEN <<>>
        ELSE hex[i - 1] \o PadStart2(ToString16(buffer[i]))
  IN  hex[Len(buffer)]

\* TextEncoder.encode, for printable ASCII.
Encode(s) == [i \in 1..Len(s) |-> charCodeAt(s, i)]

\* crypto.subtle.sign("HMAC", key, data): the MAC is idealised as a
\* collision-free keyed function with a fixed digest length. The digest
\* holds the key bytes, a zero byte and the message bytes, zero-padded to
\* DigestLen; no two (key, message) pairs share a digest.
HmacSha256(keyBytes, dataBytes) ==
  LET raw == keyBytes \o <<0>> \o dataBytes
  IN  IF Len(raw) >= DigestLen THEN raw
      ELSE raw \o [i \in 1..(DigestLen - Len(raw)) |-> 0]

\* The loop of timingSafeEqual over positions lo..hi: the bitwise OR of the
\* XOR of every pair of character codes. The loop ORs them in from left to
\* right; OR being associative, the halves are combined here instead, which
\* keeps the evaluation shallow.
RECURSIVE XorAccumulate(_, _, _, _)
XorAccumulate(a, b, lo, hi) ==
  IF lo > hi THEN 0
  ELSE IF lo = hi THEN BitXor(charCodeAt(a, lo), charCodeAt(b, lo))
  ELSE LET mid == (lo + hi) \div 2
       IN  BitOr(XorAccumulate(a, b, lo, mid), XorAccumulate(a, b, mid + 1, hi))

\* A comparison that leaves the last character out.
timingSafeEqual_SkipsLast(a, b) ==
  IF Len(a) # Len(b) THEN FALSE
  ELSE XorAccumulate(a, b, 1, Len(a) - 1) = 0

timingSafeEqual(a, b) ==
  IF Len(a) # Len(b) THEN FALSE
  ELSE XorAccumulate(a, b, 1, Len(a)) = 0

\* JavaScript numbers as far as parseInt and the window test need them.
NaN == [nan |-> TRUE, val |-> 0]
Num(n) == [nan |-> FALSE, val |-> n]

Digits == {"0", "1", "2", "3", "4", "5", "6", "7", "8", "9"}
DigitValue(c) == CharCodeTable[c] - 48

IsWhitespace(c) == c = " "

RECURSIVE SkipWhitespace(_)
SkipWhitespace(s) ==
  IF s # <<>> /\ IsWhitespace(Head(s)) THEN SkipWhitespace(Tail(s)) ELSE s

\* The longest prefix of s made of decimal digits.
RECURSIVE DigitPrefix(_)
DigitPrefix(s) ==
  IF s # <<>> /\ Head(s) \in Digits THEN <<Head(s)>> \o DigitPrefix(Tail(s)) ELSE <<>>

RECURSIVE DecimalValue(_, _)
DecimalValue(ds, acc) ==
  IF ds = <<>> THEN acc ELSE DecimalValue(Tail(ds), (10 * acc) + DigitValue(Head(ds)))

\* parseInt(s, 10): leading whitespace and one sign are skipped, the digits
\* up to the first other character are read, no digit at all gives NaN.
parseInt(s) ==
  LET t == SkipWhitespace(s)
      signed == t # <<>> /\ Head(t) \in {"+", "-"}
      u == IF signed THEN Tail(t) ELSE t
      ds == DigitPrefix(u)
      n == DecimalValue(ds, 0)
  IN  IF ds = <<>> THEN NaN
      ELSE IF signed /\ Head(t) = "-" THEN Num(0 - n) ELSE Num(n)

Abs(n) == IF n < 0 THEN 0 - n ELSE n

\* Math.abs(currentTime - requestTime) > 60 * 5; every comparison with NaN
\* is false.
\* A verifier without the window test.
OutsideWindow_Never(currentTime, requestTime) == FALSE

\* A window test that forgets timestamps in the future.
OutsideWindow_PastOnly(currentTime, requestTime) ==
  IF requestTime.nan THEN FALSE
  ELSE currentTime - requestTime.val > 60 * 5

\* A window test that is open at its ends.
OutsideWindow_OpenEnds(currentTime, requestTime) ==
  IF requestTime.nan THEN FALSE
  ELSE Abs(currentTime - requestTime.val) >= 60 * 5

OutsideWindow(currentTime, requestTime) ==
  IF requestTime.nan THEN FALSE
  ELSE Abs(currentTime - requestTime.val) > 60 * 5

\* The signature base string v0:<timestamp>:<body>.
sigBasestring(timestamp, body) == V0_COLON \o timestamp \o <<":">> \o body

expectedSignature(signingSecret, timestamp, body) ==
  V0_EQ \o bufferToHex(HmacSha256(Encode(signingSecret), Encode(sigBasestring(timestamp, body))))

\* verifySlackRequest with Date.now() / 1000 floored passed as currentTime.
verifySlackRequest(signingSecret, signature, timestamp, body, currentTime) ==
  IF IsFalsy(signature) \/ IsFalsy(timestamp) THEN FALSE
  ELSE IF OutsideWindow(currentTime, parseInt(timestamp)) THEN FALSE
  ELSE timingSafeEqual(signature, expectedSignature(signingSecret, timestamp, body))

\* crypto.subtle.importKey rejects raw HMAC key material of length zero
\* with a DataError.
importKeyRejects(keyData) == Len(keyData) = 0

\* The verifier built on Node's crypto module (synchronous): createHmac
\* takes a key of any length; crypto.timingSafeEqual throws a RangeError
\* for buffers of different byte lengths, which the catch block turns into
\* false, and compares the bytes otherwise.
verifySlackRequestNode(signingSecret, signature, timestamp, body, currentTime) ==
  LET expected == V0_EQ \o bufferToHex(HmacSha256(Encode(signingSecret), Encode(sigBasestring(timestamp, body))))
      a == Encode(signature)
      b == Encode(expected)
      throwsRangeError == Len(a) # Len(b)
  IN  IF IsFalsy(signature) \/ IsFalsy(timestamp) THEN FALSE
      ELSE IF OutsideWindow(currentTime, parseInt(timestamp)) THEN FALSE
      ELSE IF throwsRangeError THEN FALSE
      ELSE \A i \in 1..Len(a) : a[i] = b[i]

\* The call of verifySlackRequest ends in a rejected promise: nothing in it
\* catches, so it rejects when it gets as far as importKey and importKey
\* rejects.
verifySlackRequestRejects(signingSecret, signature, timestamp, body, currentTime) ==
  /\ ~(IsFalsy(signature) \/ IsFalsy(timestamp))
  /\ ~OutsideWindow(currentTime, parseInt(timestamp))
  /\ importKeyRejects(Encode(signingSecret))

\* The sender's signing of a request (the tests' generateSlackSignature).
generateSlackSignature(secret, timestamp, body) ==
  V0_EQ \o bufferToHex(HmacSha256(Encode(secret), Encode(sigBasestring(timestamp, body))))

\* The handler's authentication branch: 401 on a failed verification,
\* otherwise the request goes on to parsing (status 0 stands for "goes on").
AuthStatus(signingSecret, signature, timestamp, body, currentTime) ==
  IF ~verifySlackRequest(signingSecret, signature, timestamp, body, currentTime)
  THEN 401 ELSE 0

\* ------------------------------------------------------------------------
\* Payload Parser
\* ------------------------------------------------------------------------

K_text == <<"t", "e", "x", "t">>
K_response_url == <<"r", "e", "s", "p", "o", "n", "s", "e", "_", "u", "r", "l">>

HexDigitChars == Digits \cup {"a", "b", "c", "d", "e", "f", "A", "B", "C", "D", "E", "F"}

HexValue(c) ==
  IF c \in Digits THEN DigitValue(c)
  ELSE IF c \in {"a", "b", "c", "d", "e", "f"} THEN CharCodeTable[c] - 87
  ELSE CharCodeTable[c] - 55

\* The form decoding of URLSearchParams for one name or value: "+" is a
\* space, %XX is the character with that code (printable ASCII here), any
\* other "%" stays. A "%" is no hexadecimal digit, so whether an escape
\* starts at a position depends on that position and the next two only;
\* DecodedAt is what the character at position i contributes.
DecodedAt(s, i) ==
  LET IsEscapeAt(j) ==
        /\ s[j] = "%"
        /\ j + 2 <= Len(s)
        /\ s[j + 1] \in HexDigitChars
        /\ s[j + 2] \in HexDigitChars
        /\ (16 * HexValue(s[j + 1])) + HexValue(s[j + 2]) \in 32..126
  IN  IF IsEscapeAt(i) THEN <<fromCharCode((16 * HexValue(s[i + 1])) + HexValue(s[i + 2]))>>
      ELSE IF (i > 1 /\ IsEscapeAt(i - 1)) \/ (i > 2 /\ IsEscapeAt(i - 2)) THEN <<>>
      ELSE IF s[i] = "+" THEN <<" ">>
      ELSE <<s[i]>>

\* The decoding of positions lo..hi, the halves decoded apart to keep the
\* evaluation shallow.
RECURSIVE DecodeRange(_, _, _)
DecodeRange(s, lo, hi) ==
  IF lo > hi THEN <<>>
  ELSE IF lo = hi THEN DecodedAt(s, lo)
  ELSE LET mid == (lo + hi) \div 2
       IN  DecodeRange(s, lo, mid) \o DecodeRange(s, mid + 1, hi)

FormDecode(s) == DecodeRange(s, 1, Len(s))

\* new URLSearchParams(init): a leading "?" of init is dropped; then the
\* pieces between "&", each split at its first "=" into a decoded name and
\* a decoded value; empty pieces are skipped. Every pair carries the
\* position of its piece.
SearchParams(init) ==
  LET body == IF init # <<>> /\ Head(init) = "?" THEN Tail(init) ELSE init
      n == Len(body)
      cuts == {0, n + 1} \cup {i \in 1..n : body[i] = "&"}
      next(lo) == CHOOSE hi \in cuts : hi > lo /\ \A c \in cuts : c > lo => hi <= c
      piece(lo) == SubSeq(body, lo + 1, next(lo) - 1)
      eq(p) == IF \E i \in 1..Len(p) : p[i] = "="
               THEN CHOOSE i \in 1..Len(p) : p[i] = "=" /\ \A j \in 1..(i - 1) : p[j] # "="
               ELSE Len(p) + 1
  IN  { [ pos |-> lo,
          name |-> FormDecode(SubSeq(piece(lo), 1, eq(piece(lo)) - 1)),
          value |-> FormDecode(SubSeq(piece(lo), eq(piece(lo)) + 1, Len(piece(lo)))) ]
        : lo \in {c \in cuts : c <= n /\ piece(c) # <<>>} }

\* A get without the default: null for a name that is absent.
ParamOrEmpty_Null(body, name) ==
  LET m == {p \in SearchParams(body) : p.name = name}
  IN  IF m = {} THEN NULL
      ELSE (CHOOSE p \in m : \A q \in m : p.pos <= q.pos).value

\* URLSearchParams.get followed by || "": the value of the first pair with
\* that name, the empty string when there is none.
ParamOrEmpty(body, name) ==
  LET m == {p \in SearchParams(body) : p.name = name}
  IN  IF m = {} THEN <<>>
      ELSE (CHOOSE p \in m : \A q \in m : p.pos <= q.pos).value

\* The names of the fixed payload fields, as the keys of the form.
FieldKeys ==
  [ token |-> <<"t", "o", "k", "e", "n">>,
    team_id |-> <<"t", "e", "a", "m", "_", "i", "d">>,
    team_domain |-> <<"t", "e", "a", "m", "_", "d", "o", "m", "a", "i", "n">>,
    channel_id |-> <<"c", "h", "a", "n", "n", "e", "l", "_", "i", "d">>,
    channel_name |-> <<"c", "h", "a", "n", "n", "e", "l", "_", "n", "a", "m", "e">>,
    user_id |-> <<"u", "s", "e", "r", "_", "i", "d">>,
    user_name |-> <<"u", "s", "e", "r", "_", "n", "a", "m", "e">>,
    command |-> <<"c", "o", "m", "m", "a", "n", "d">>,
    text |-> K_text,
    response_url |-> K_response_url,
    trigger_id |-> <<"t", "r", "i", "g", "g", "e", "r", "_", "i", "d">> ]

parseSlashCommandPayload(body) ==
  [f \in DOMAIN FieldKeys |-> ParamOrEmpty(body, FieldKeys[f])]

\* String.prototype.trim.
RECURSIVE TrimEnd(_)
TrimEnd(s) ==
  IF s # <<>> /\ IsWhitespace(s[Len(s)]) THEN TrimEnd(SubSeq(s, 1, Len(s) - 1)) ELSE s

trim(s) == TrimEnd(SkipWhitespace(s))

\* ------------------------------------------------------------------------
\* Response Formatter
\* ------------------------------------------------------------------------

\* A success rendering shown to the whole channel.
createSlackResponse_InChannel(originalMessage, rewordedMessage) ==
  [ response_type |-> "in_channel",
    blocks |-> << [type |-> "section", text |-> "*Your reworded message:*"],
                  [type |-> "section", text |-> rewordedMessage],
                  [type |-> "divider", text |-> ""],
                  [type |-> "context", text |-> "_Original: " \o originalMessage \o "_"] >> ]

\* A success rendering that repeats the original beside the transformed
\* text.
createSlackResponse_Mixed(originalMessage, rewordedMessage) ==
  [ response_type |-> "ephemeral",
    blocks |-> << [type |-> "section", text |-> "*Your reworded message:*"],
                  [type |-> "section", text |-> rewordedMessage \o " (was: " \o originalMessage \o ")"],
                  [type |-> "divider", text |-> ""],
                  [type |-> "context", text |-> "_Original: " \o originalMessage \o "_"] >> ]

createSlackResponse(originalMessage, rewordedMessage) ==
  [ response_type |-> "ephemeral",
    blocks |-> << [type |-> "section", text |-> "*Your reworded message:*"],
                  [type |-> "section", text |-> rewordedMessage],
                  [type |-> "divider", text |-> ""],
                  [type |-> "context", text |-> "_Original: " \o originalMessage \o "_"] >> ]

\* A failure rendering that drops the space after the marker when there is
\* no message.
createErrorResponse_BareMarker(message) ==
  [ response_type |-> "ephemeral",
    text |-> IF message = "" THEN ":warning:" ELSE ":warning: " \o message ]

createErrorResponse(message) ==
  [ response_type |-> "ephemeral", text |-> ":warning: " \o message ]

\* The grave accent (character 96), which a string here cannot hold.
Grave == "(grave)"

\* The notice for empty text, with the usage between grave accents.
EmptyTextNotice ==
  "Please provide a message to reword. Usage: " \o Grave \o "/reword <your message>" \o Grave

\* The immediate acknowledgment of an accepted request.
Acknowledgment(vt) ==
  [ response_type |-> "ephemeral",
    text |-> IF vt = "deferred" THEN "Rewording your message..."
             ELSE ":hourglass_flowing_sand: Rewording your message..." ]

\* ------------------------------------------------------------------------
\* State
\* ------------------------------------------------------------------------

VARIABLES
  v,        \* the verifier harness: the signed request, what is presented, the verdict
  variant,  \* which handler variant is deployed
  env,      \* process.env.SLACK_SIGNING_SECRET (the empty string when unset)
  now,      \* Math.floor(Date.now() / 1000)
  thread,   \* the request whose synchronous block holds the JavaScript thread, 0 if none
  h         \* per request: the handler's and its deferred task's state

hvars == <<variant, env, now, thread, h>>
vars == <<v, variant, env, now, thread, h>>

\* The harness at rest, while the handlers run.
VIdle ==
  [ phase |-> "off", secret |-> <<>>, now |-> 0, signedTs |-> <<>>, signedBody |-> <<>>,
    signature |-> <<>>, timestamp |-> <<>>, body |-> <<>>,
    changed |-> {}, ok |-> FALSE, threw |-> FALSE, okNode |-> FALSE, status |-> 0 ]

\* ------------------------------------------------------------------------
\* Requests, responses and the outcomes of the external calls
\* ------------------------------------------------------------------------

Reqs == 1..NumReq

\* The deferred handler variants: "deferred" is api/slack/reword.ts with
\* waitUntil(processAndRespond(payload)); "node" is the nodejs-runtime handler
\* with a nested try around the error POST; "edge" is the handler taking an
\* optional context.waitUntil; "server" is the standalone server route.
Variants == {"deferred", "node", "edge", "server"}

\* The secret the sender signs with, and what the server may be configured with.
SenderSecret == <<"k">>
Secrets == {<<>>, SenderSecret, <<"x">>}

\* The values the clock takes.
Times == {1000, 1301}

TsFresh == <<"1", "0", "0", "0">>
TsOld == <<"6", "9", "9">>

BodyHi == <<"t", "e", "x", "t", "=", "h", "i", "&", "r", "e", "s", "p", "o", "n", "s", "e", "_", "u", "r", "l", "=", "u", "1">>
BodyYo == <<"t", "e", "x", "t", "=", "+", "y", "o", "%", "2", "1", "+", "&", "r", "e", "s", "p", "o", "n", "s", "e", "_", "u", "r", "l", "=", "u", "2">>
BodyEmpty == <<"t", "e", "x", "t", "=", "&", "r", "e", "s", "p", "o", "n", "s", "e", "_", "u", "r", "l", "=", "u", "1">>
BodyBlank == <<"t", "e", "x", "t", "=", "+", "%", "2", "0", "&", "r", "e", "s", "p", "o", "n", "s", "e", "_", "u", "r", "l", "=", "u", "1">>
BodyNoUrl == <<"t", "e", "x", "t", "=", "h", "i">>
SigInvalid == <<"v", "0", "=", "i", "n", "v", "a", "l", "i", "d">>

SignedPost(timestamp, body) ==
  [ method |-> "POST", signature |-> generateSlackSignature(SenderSecret, timestamp, body),
    timestamp |-> timestamp, body |-> body ]

\* The requests the sender and others deliver.
Inputs ==
  << SignedPost(TsFresh, BodyHi),
     SignedPost(TsFresh, BodyYo),
     SignedPost(TsFresh, BodyEmpty),
     SignedPost(TsFresh, BodyBlank),
     SignedPost(TsOld, BodyHi),
     [method |-> "POST", signature |-> SigInvalid, timestamp |-> TsFresh, body |-> BodyHi],
     [method |-> "POST", signature |-> NULL, timestamp |-> NULL, body |-> BodyHi],
     [method |-> "GET", signature |-> NULL, timestamp |-> NULL, body |-> <<>>],
     SignedPost(TsFresh, BodyNoUrl) >>

\* The requests that carry a callback URL or never get as far as the parsing.
WithUrl == {i \in DOMAIN Inputs : Inputs[i].body # BodyNoUrl}

\* Thrown values: Error objects carry a name and a message, anything else
\* thrown is its own string.
ApiError == [isError |-> TRUE, name |-> "Error", message |-> "Gateway request failed"]
ThrownText == [isError |-> FALSE, name |-> "", message |-> "rate limited"]
FetchFailed == [isError |-> TRUE, name |-> "TypeError", message |-> "fetch failed"]
BodyUnreadable == [isError |-> TRUE, name |-> "TypeError", message |-> "terminated"]
NoError == [isError |-> FALSE, name |-> "", message |-> ""]

\* String(err).
StringOf(err) ==
  IF ~err.isError THEN err.message
  ELSE IF err.message = "" THEN err.name
  ELSE err.name \o ": " \o err.message

Pending == [kind |-> "pending", text |-> "", err |-> NoError]

\* How the transform call (generateText) can settle.
TransformOutcomes ==
  { [kind |-> "ok", text |-> "Could you please help with this?", err |-> NoError],
    [kind |-> "error", text |-> "", err |-> ApiError],
    [kind |-> "error", text |-> "", err |-> ThrownText] }

\* How the fetch of a callback POST can settle: a 2xx response, a non-2xx
\* response, a non-2xx response whose body cannot be read, a network error.
PostResults == {"ok", "non2xx", "non2xxBodyError", "networkError"}

NoResp == [status |-> 0, body |-> [response_type |-> "none", text |-> ""]]
JsonError(status, message) == [status |-> status, body |-> [error |-> message]]

Idle ==
  [ input |-> 0, ctx |-> FALSE, pc |-> "idle", auth |-> "none", isValid |-> FALSE, resp |-> NoResp,
    submit |-> "none", tpc |-> "none", inCatch |-> FALSE, transform |-> Pending,
    invoked |-> <<>>, posts |-> <<>> ]

\* ------------------------------------------------------------------------
\* Request Handler
\* ------------------------------------------------------------------------

\* Early checks that look at the secret before the method.
EarlyChecks_SecretFirst(vt, secret, s) ==
  IF IsFalsy(secret)
  THEN [s EXCEPT !.pc = "returned", !.resp = JsonError(500, "Server configuration error")]
  ELSE IF Inputs[s.input].method # "POST"
  THEN [s EXCEPT !.pc = "returned",
                 !.resp = IF vt = "server" THEN [status |-> 404, body |-> [error |-> "404 Not Found"]]
                          ELSE JsonError(405, "Method not allowed")]
  ELSE [s EXCEPT !.pc = "reading"]

\* The checks before the body is read: the method (in the server variant
\* the router passes POST only and answers the rest itself), then the secret.
EarlyChecks(vt, secret, s) ==
  IF Inputs[s.input].method # "POST"
  THEN [s EXCEPT !.pc = "returned",
                 !.resp = IF vt = "server" THEN [status |-> 404, body |-> [error |-> "404 Not Found"]]
                          ELSE JsonError(405, "Method not allowed")]
  ELSE IF IsFalsy(secret)
  THEN [s EXCEPT !.pc = "returned", !.resp = JsonError(500, "Server configuration error")]
  ELSE [s EXCEPT !.pc = "reading"]

\* A request arrives; the handler runs up to await req.text(). Requests are
\* numbered in their order of arrival.
ReceiveFrom(r, arriving) ==
  /\ thread = 0
  /\ h[r].pc = "idle"
  /\ \A q \in Reqs : q < r => h[q].pc # "idle"
  /\ \E i \in arriving, c \in (IF variant = "edge" THEN BOOLEAN ELSE {FALSE}) :
       h' = [h EXCEPT ![r] = EarlyChecks(variant, env, [@ EXCEPT !.input = i, !.ctx = c])]
  /\ UNCHANGED <<v, variant, env, now, thread>>

Receive(r) == ReceiveFrom(r, WithUrl)

\* What verifySlackRequest returns for each configured secret, clock reading
\* and input, tabulated once.
Verdict ==
  [secret \in Secrets |-> [currentTime \in Times |-> [i \in DOMAIN Inputs |->
     verifySlackRequest(secret, Inputs[i].signature, Inputs[i].timestamp, Inputs[i].body, currentTime)]]]

\* A handler that goes on whatever the verifier answered.
Authenticated_Lenient(secret, currentTime, s) ==
  [s EXCEPT !.pc = "verified", !.auth = "ok",
            !.isValid = Verdict[secret][currentTime][s.input]]

\* The body is read and verifySlackRequest is awaited.
Authenticated(secret, currentTime, s) ==
  LET isValid == Verdict[secret][currentTime][s.input]
  IN  IF ~isValid
      THEN [s EXCEPT !.pc = "returned", !.auth = "bad", !.isValid = isValid,
                     !.resp = JsonError(401, "Invalid request signature")]
      ELSE [s EXCEPT !.pc = "verified", !.auth = "ok", !.isValid = isValid]

Authenticate(r) ==
  /\ thread = 0
  /\ h[r].pc = "reading"
  /\ h' = [h EXCEPT ![r] = Authenticated(env, now, @)]
  /\ UNCHANGED <<v, variant, env, now, thread>>

\* Parsing and validation, then the start of the deferred task, which runs
\* synchronously up to its await of generateText.
\* The parsed payload of each input, tabulated once.
PayloadOf == [i \in DOMAIN Inputs |-> parseSlashCommandPayload(Inputs[i].body)]

\* A validation that answers empty text with status 400.
Dispatched_BadRequest(s) ==
  LET payload == PayloadOf[s.input]
  IN  IF IsFalsy(payload.text) \/ trim(payload.text) = <<>>
      THEN [s EXCEPT !.pc = "returned",
                     !.resp = [status |-> 400, body |-> createErrorResponse(EmptyTextNotice)]]
      ELSE [s EXCEPT !.pc = "dispatching", !.tpc = "awaitTransform",
                     !.invoked = Append(@, Str(trim(payload.text)))]

\* A validation that tests the text before trimming only.
Dispatched_Untrimmed(s) ==
  LET payload == PayloadOf[s.input]
  IN  IF IsFalsy(payload.text)
      THEN [s EXCEPT !.pc = "returned",
                     !.resp = [status |-> 200, body |-> createErrorResponse(EmptyTextNotice)]]
      ELSE [s EXCEPT !.pc = "dispatching", !.tpc = "awaitTransform",
                     !.invoked = Append(@, Str(trim(payload.text)))]

\* A handler that hands the text to the task as it was parsed.
Dispatched_RawText(s) ==
  LET payload == PayloadOf[s.input]
  IN  IF IsFalsy(payload.text) \/ trim(payload.text) = <<>>
      THEN [s EXCEPT !.pc = "returned",
                     !.resp = [status |-> 200, body |-> createErrorResponse(EmptyTextNotice)]]
      ELSE [s EXCEPT !.pc = "dispatching", !.tpc = "awaitTransform",
                     !.invoked = Append(@, Str(payload.text))]

Dispatched(s) ==
  LET payload == PayloadOf[s.input]
  IN  IF IsFalsy(payload.text) \/ trim(payload.text) = <<>>
      THEN [s EXCEPT !.pc = "returned",
                     !.resp = [status |-> 200, body |-> createErrorResponse(EmptyTextNotice)]]
      ELSE [s EXCEPT !.pc = "dispatching", !.tpc = "awaitTransform",
                     !.invoked = Append(@, Str(trim(payload.text)))]

StartTask(r) ==
  /\ thread = 0
  /\ h[r].pc = "verified"
  /\ h' = [h EXCEPT ![r] = Dispatched(@)]
  /\ thread' = IF h'[r].pc = "dispatching" THEN r ELSE 0
  /\ UNCHANGED <<v, variant, env, now>>

\* How the task's promise is handed to the host.
\* An edge handler that never hands its task to waitUntil.
Submission_NeverRegistered(vt, ctx) ==
  IF vt \in {"deferred", "node"} THEN "waitUntil"
  ELSE IF vt = "edge" THEN "catch"
  ELSE "detached"

Submission(vt, ctx) ==
  IF vt \in {"deferred", "node"} THEN "waitUntil"
  ELSE IF vt = "edge" THEN (IF ctx THEN "waitUntil" ELSE "catch")
  ELSE "detached"

\* The rest of the handler's synchronous block: the task is submitted and
\* the acknowledgment is returned.
Acknowledged(vt, s) ==
  [s EXCEPT !.pc = "returned",
            !.submit = Submission(vt, s.ctx),
            !.resp = [status |-> 200, body |-> Acknowledgment(vt)]]

\* A handler that returns only after its task has ended.
ReturnAck_AfterTask(r) ==
  /\ thread = r
  /\ h[r].pc = "dispatching"
  /\ h[r].tpc \in {"done", "rejected"}
  /\ h' = [h EXCEPT ![r] = Acknowledged(variant, @)]
  /\ thread' = 0
  /\ UNCHANGED <<v, variant, env, now>>

ReturnAck(r) ==
  /\ thread = r
  /\ h[r].pc = "dispatching"
  /\ h' = [h EXCEPT ![r] = Acknowledged(variant, @)]
  /\ thread' = 0
  /\ UNCHANGED <<v, variant, env, now>>

\* ------------------------------------------------------------------------
\* Deferred Task Dispatcher
\* ------------------------------------------------------------------------

\* The text of the failure rendering for a caught error.
ErrorText(vt, err) ==
  IF vt \in {"edge", "server"} THEN "Error: " \o StringOf(err)
  ELSE "Error: " \o (IF err.isError THEN err.message ELSE StringOf(err))

\* A callback URL kept in one variable shared by all requests and
\* overwritten by each arrival.
IssuePost_SharedUrl(s, rendering, fromCatch) ==
  LET last == CHOOSE q \in Reqs : h[q].input # 0 /\ \A p \in Reqs : p > q => h[p].input = 0
  IN  [s EXCEPT !.tpc = "awaitPost", !.inCatch = fromCatch,
                !.posts = Append(@, [ url |-> Str(PayloadOf[h[last].input].response_url),
                                      body |-> rendering,
                                      acked |-> s.resp # NoResp ])]

\* fetch is called with the callback URL and the rendering.
IssuePost(s, rendering, fromCatch) ==
  [s EXCEPT !.tpc = "awaitPost", !.inCatch = fromCatch,
            !.posts = Append(@, [ url |-> Str(PayloadOf[s.input].response_url),
                                  body |-> rendering,
                                  acked |-> s.resp # NoResp ])]

\* The transform call settles, at any time after it was made.
TransformSettle(r) ==
  /\ h[r].tpc = "awaitTransform"
  /\ h[r].transform = Pending
  /\ \E out \in TransformOutcomes : h' = [h EXCEPT ![r].transform = out]
  /\ UNCHANGED <<v, variant, env, now, thread>>

\* A catch block that posts the success rendering of the original text.
Resumed_Echo(vt, s) ==
  IF s.transform.kind = "ok"
  THEN IssuePost(s, createSlackResponse(s.invoked[1], s.transform.text), FALSE)
  ELSE IssuePost(s, createSlackResponse(s.invoked[1], s.invoked[1]), TRUE)

\* The task resumes after await generateText: the success rendering is
\* posted, or the catch block posts the failure rendering.
Resumed(vt, s) ==
  IF s.transform.kind = "ok"
  THEN IssuePost(s, createSlackResponse(s.invoked[1], s.transform.text), FALSE)
  ELSE IssuePost(s, createErrorResponse(ErrorText(vt, s.transform.err)), TRUE)

\* A task that resumes in the middle of the handler's synchronous code.
TaskResume_Eager(r) ==
  /\ h[r].tpc = "awaitTransform"
  /\ h[r].transform # Pending
  /\ h' = [h EXCEPT ![r] = Resumed(variant, @)]
  /\ UNCHANGED <<v, variant, env, now, thread>>

TaskResume(r) ==
  /\ thread = 0
  /\ h[r].tpc = "awaitTransform"
  /\ h[r].transform # Pending
  /\ h' = [h EXCEPT ![r] = Resumed(variant, @)]
  /\ UNCHANGED <<v, variant, env, now, thread>>

\* What the posting step throws to the task for a result of fetch: the
\* edge and server variants catch everything inside postToResponseUrl, the
\* node variant lets a network error and an unreadable error body through,
\* the deferred variant awaits fetch directly.
PostThrows(vt, res) ==
  IF vt \in {"deferred", "node"} /\ res = "invalidUrl"
  THEN [isError |-> TRUE, name |-> "TypeError", message |-> "Failed to parse URL"]
  ELSE IF vt = "deferred" THEN (IF res = "networkError" THEN FetchFailed ELSE NoError)
  ELSE IF vt = "node"
  THEN (IF res = "networkError" THEN FetchFailed
        ELSE IF res = "non2xxBodyError" THEN BodyUnreadable
        ELSE NoError)
  ELSE NoError

\* The task after a POST settled: done; or, thrown in the try block, the
\* catch block posts the failure rendering; or, thrown in the catch block,
\* swallowed by the nested try (node) or left to reject the task (deferred).
AfterPost(vt, s, res) ==
  LET thrown == PostThrows(vt, res)
  IN  IF thrown = NoError THEN [s EXCEPT !.tpc = "done"]
      ELSE IF ~s.inCatch THEN IssuePost(s, createErrorResponse(ErrorText(vt, thrown)), TRUE)
      ELSE IF vt = "node" THEN [s EXCEPT !.tpc = "done"]
      ELSE [s EXCEPT !.tpc = "rejected"]

\* A fetch that delivers to any URL, the empty one included.
FetchResults_AnyUrl(url) == PostResults

\* How fetch can settle for a URL: the empty string is no URL, and fetch
\* rejects with a TypeError before anything is sent.
FetchResults(url) == IF url = "" THEN {"invalidUrl"} ELSE PostResults

PostSettle(r) ==
  /\ thread = 0
  /\ h[r].tpc = "awaitPost"
  /\ \E res \in FetchResults(h[r].posts[Len(h[r].posts)].url) :
       h' = [h EXCEPT ![r] = AfterPost(variant, @, res)]
  /\ UNCHANGED <<v, variant, env, now, thread>>

\* Time passes. The clock is read by the verifier only, so its steps are
\* followed while a request can still reach the verifier.
Tick ==
  /\ \E r \in Reqs : h[r].pc \in {"idle", "reading"}
  /\ \E t \in Times : t > now /\ now' = t
  /\ UNCHANGED <<v, variant, env, thread, h>>

Init ==
  /\ v = VIdle
  /\ variant \in Variants
  /\ env \in Secrets
  /\ now = 1000
  /\ thread = 0
  /\ h = [r \in Reqs |-> Idle]

Next ==
  \/ \E r \in Reqs : Receive(r)
  \/ \E r \in Reqs : Authenticate(r)
  \/ \E r \in Reqs : StartTask(r)
  \/ \E r \in Reqs : ReturnAck(r)
  \/ \E r \in Reqs : TransformSettle(r)
  \/ \E r \in Reqs : TaskResume(r)
  \/ \E r \in Reqs : PostSettle(r)
  \/ Tick

Spec == Init /\ [][Next]_vars

\* The event loop runs every job that is ready and fetch settles; nothing
\* makes the transform call settle.
FairSpec ==
  /\ Spec
  /\ \A r \in Reqs :
       /\ WF_vars(Authenticate(r))
       /\ WF_vars(StartTask(r))
       /\ WF_vars(ReturnAck(r))
       /\ WF_vars(TaskResume(r))
       /\ WF_vars(PostSettle(r))

\* The handler's own steps are taken when they can be; nothing makes the
\* transform call settle, the task resume or the POST settle.
HandlerFairSpec ==
  /\ Spec
  /\ \A r \in Reqs :
       /\ WF_vars(Authenticate(r))
       /\ WF_vars(StartTask(r))
       /\ WF_vars(ReturnAck(r))

\* ------------------------------------------------------------------------
\* Properties of the handlers and their deferred tasks
\* ------------------------------------------------------------------------

In(r) == Inputs[h[r].input]

HasEmptyText(r) == h[r].input # 0 /\ In(r).body \in {BodyEmpty, BodyBlank}

IsFailureRendering(b) == DOMAIN b = {"response_type", "text"}
IsSuccessRendering(b) == DOMAIN b = {"response_type", "blocks"}

\* C1: for every accepted request the deferred task issues at most one POST
\* to the callback URL, whatever the transform call and the POST do.
C1_AtMostOnePost == \A r \in Reqs : Len(h[r].posts) <= 1

\* C2: a verified request with empty text is answered with the empty-input
\* notice; no transform call, no task and no POST exist for it.
C2_EmptyTextNeverDispatched ==
  \A r \in Reqs :
    (h[r].auth = "ok" /\ HasEmptyText(r)) =>
      /\ h[r].invoked = <<>>
      /\ h[r].tpc = "none"
      /\ h[r].submit = "none"
      /\ h[r].posts = <<>>
      /\ h[r].pc = "returned" =>
           h[r].resp = [status |-> 200, body |-> createErrorResponse(EmptyTextNotice)]

C2_Witness ==
  \E r \in Reqs :
    /\ h[r].auth = "ok" /\ h[r].input # 0 /\ In(r).body = BodyBlank
    /\ h[r].pc = "returned" /\ h[r].resp.status = 200

\* C3: once the task of an accepted request has ended, exactly one POST was
\* issued, to the callback URL of that request, carrying the success or the
\* failure rendering.
C3_ExactlyOnePost ==
  \A r \in Reqs :
    h[r].tpc \in {"done", "rejected"} =>
      /\ Len(h[r].posts) = 1
      /\ h[r].posts[1].url = Str(parseSlashCommandPayload(In(r).body).response_url)
      /\ IsSuccessRendering(h[r].posts[1].body) \/ IsFailureRendering(h[r].posts[1].body)

\* C4: a dispatched request whose transform call is awaited leads to a POST
\* to the callback URL, also when the transform call never completes.
C4_DispatchLeadsToPost ==
  \A r \in Reqs : (h[r].tpc = "awaitTransform") ~> (h[r].posts # <<>>)

\* C5: every callback POST of a request is issued after the handler has
\* returned the acknowledgment of that request.
C5_PostAfterAck ==
  \A r \in Reqs : \A i \in 1..Len(h[r].posts) : h[r].posts[i].acked

\* One request's POST has been issued after its acknowledgment, while the
\* transform call of another request has settled before its handler returned
\* and nothing has been posted for it.
C5_Witness ==
  \E r, q \in Reqs :
    /\ h[r].posts # <<>> /\ h[r].posts[1].acked /\ h[r].resp.body = Acknowledgment(variant)
    /\ h[q].pc = "dispatching" /\ h[q].transform # Pending /\ h[q].posts = <<>>

\* C6: when the transform call failed, every body posted is the failure
\* rendering whose text is the warning marker, "Error:" and the description
\* of the error; the success rendering is not posted.
C6_FailureRenderingOnError ==
  \A r \in Reqs :
    h[r].transform.kind = "error" =>
      \A i \in 1..Len(h[r].posts) :
        LET b == h[r].posts[i].body
        IN  /\ IsFailureRendering(b)
            /\ b.response_type = "ephemeral"
            /\ b.text \in { ":warning: Error: " \o StringOf(h[r].transform.err),
                            ":warning: Error: " \o h[r].transform.err.message }

C6_Witness ==
  \E r \in Reqs : h[r].transform.kind = "error" /\ h[r].posts # <<>> /\ h[r].tpc = "done"

\* C7: the deferred task never ends rejected, whatever the transform call
\* and the POSTs do.
C7_TaskNeverRejects == \A r \in Reqs : h[r].tpc # "rejected"

\* C8: a request for which verify returned false is answered 401 with the
\* error body "Invalid request signature"; it is not acknowledged, no
\* transform call is made and no POST is issued for it.
C8_UnverifiedRejected ==
  \A r \in Reqs :
    (h[r].auth # "none" /\ ~h[r].isValid) =>
      /\ h[r].pc = "returned"
      /\ h[r].resp = [status |-> 401, body |-> [error |-> "Invalid request signature"]]
      /\ h[r].invoked = <<>>
      /\ h[r].tpc = "none"
      /\ h[r].submit = "none"
      /\ h[r].posts = <<>>

C8_Witness ==
  \E r \in Reqs : h[r].auth = "bad" /\ In(r).signature = SigInvalid /\ h[r].resp.status = 401

\* ------------------------------------------------------------------------
\* The verifier on its own: a signed request, tampered with, then verified
\* ------------------------------------------------------------------------

VSecrets == {<<"k">>, <<"s", "2">>}
\* The secrets the verifier can be called with.
VServerSecrets == VSecrets \cup {<<>>}
VNows == {1000}
VTimestamps ==
  { <<"6", "9", "9">>, <<"7", "0", "0">>, <<"1", "0", "0", "0">>,
    <<"1", "3", "0", "0">>, <<"1", "3", "0", "1">>,
    <<"1", "0", "0", "0", ":", "a">>, <<"a", "b", "c">>, <<>>, NULL }
VBodies == { <<>>, <<"b">>, <<"a", ":", "b">>, <<"t", "=", "x">> }

\* Replace the character at position i of s by c.
SetChar(s, i, c) == [s EXCEPT ![i] = c]

\* Signatures a sender other than the signer can present in place of sig.
Forgeries(sig) ==
  { SetChar(sig, 2, "1"),                              \* version prefix v1=
    SetChar(sig, Len(sig), IF sig[Len(sig)] = "0" THEN "1" ELSE "0"),
    SubSeq(sig, 1, Len(sig) - 1),
    <<"v", "0", "=", "i", "n", "v", "a", "l", "i", "d">>,
    <<>>, NULL }

VInit ==
  /\ variant = "none" /\ env = <<>> /\ now = 0 /\ thread = 0 /\ h = <<>>
  /\ \E secret \in VSecrets, t0 \in VNows, ts \in VTimestamps \ {<<>>, NULL}, body \in VBodies :
      v = [ phase |-> "signed", secret |-> secret, now |-> t0,
          signedTs |-> ts, signedBody |-> body,
          signature |-> generateSlackSignature(secret, ts, body),
          timestamp |-> ts, body |-> body,
          changed |-> {}, ok |-> FALSE, threw |-> FALSE, okNode |-> FALSE, status |-> 0 ]

TamperSignature ==
  /\ v.phase = "signed"
  /\ "signature" \notin v.changed
  /\ \E s \in Forgeries(v.signature) : v' = [v EXCEPT !.signature = s, !.changed = @ \cup {"signature"}]
  /\ UNCHANGED hvars

TamperTimestamp ==
  /\ v.phase = "signed"
  /\ "timestamp" \notin v.changed
  /\ \E t \in VTimestamps : t # v.timestamp /\ v' = [v EXCEPT !.timestamp = t, !.changed = @ \cup {"timestamp"}]
  /\ UNCHANGED hvars

TamperBody ==
  /\ v.phase = "signed"
  /\ "body" \notin v.changed
  /\ \E b \in VBodies : b # v.body /\ v' = [v EXCEPT !.body = b, !.changed = @ \cup {"body"}]
  /\ UNCHANGED hvars

\* The server is configured with another secret than the signer's.
TamperSecret ==
  /\ v.phase = "signed"
  /\ "secret" \notin v.changed
  /\ \E k \in VServerSecrets : k # v.secret /\ v' = [v EXCEPT !.secret = k, !.changed = @ \cup {"secret"}]
  /\ UNCHANGED hvars

Verify ==
  /\ v.phase = "signed"
  /\ LET threw == verifySlackRequestRejects(v.secret, v.signature, v.timestamp, v.body, v.now)
         ok == ~threw /\ verifySlackRequest(v.secret, v.signature, v.timestamp, v.body, v.now)
     IN  v' = [v EXCEPT !.phase = "verified", !.ok = ok, !.threw = threw,
                        !.okNode = verifySlackRequestNode(v.secret, v.signature, v.timestamp, v.body, v.now),
                        !.status = IF threw THEN 500
                                   ELSE AuthStatus(v.secret, v.signature, v.timestamp, v.body, v.now)]
  /\ UNCHANGED hvars

VNext == TamperSignature \/ TamperTimestamp \/ TamperBody \/ TamperSecret \/ Verify

VerifySpec == VInit /\ [][VNext]_vars

\* ------------------------------------------------------------------------
\* Properties of the verifier
\* ------------------------------------------------------------------------

\* A timestamp header that is a decimal integer, and its value in seconds.
IsDecimal(ts) == ts # NULL /\ ts # <<>> /\ \A i \in 1..Len(ts) : ts[i] \in Digits
Seconds(ts) == DecimalValue(ts, 0)
InWindow(currentTime, ts) ==
  IsDecimal(ts) /\ currentTime - Seconds(ts) <= 300 /\ Seconds(ts) - currentTime <= 300

\* C9: for a secret, a body and a timestamp inside the acceptance window,
\* verify returns true when given the signature computed by the signer, and
\* false when the signature, the body or the timestamp presented differs
\* from the one that was signed.
C9_SignatureBindsRequest ==
  (v.phase = "verified" /\ "secret" \notin v.changed /\ InWindow(v.now, v.signedTs)) =>
    /\ v.changed = {} => v.ok
    /\ v.changed # {} => ~v.ok

\* C10: a timestamp more than 300 seconds before or after the current time
\* is rejected, also with the signature computed for that timestamp and
\* body, and the handler's answer is 401.
C10_OutsideWindowRejected ==
  ( /\ v.phase = "verified"
    /\ IsDecimal(v.timestamp)
    /\ (v.now - Seconds(v.timestamp) > 300 \/ Seconds(v.timestamp) - v.now > 300) ) =>
    ~v.ok /\ v.status = 401

\* A request signed for a timestamp 301 seconds ahead, presented untouched.
C10_Witness ==
  /\ v.phase = "verified"
  /\ v.changed = {}
  /\ v.timestamp = <<"1", "3", "0", "1">>
  /\ v.signature = generateSlackSignature(v.secret, v.timestamp, v.body)
  /\ v.status = 401

\* A timestamp header without any digit: no reading of it is an integer.
NoInteger(ts) == ts = NULL \/ \A i \in 1..Len(ts) : ts[i] \notin Digits

\* C11: verify returns false whenever the timestamp header cannot be parsed
\* as an integer number of seconds, also when the signature presented is the
\* one computed over that timestamp string and the body.
C11_UnparsableTimestampRejected ==
  (v.phase = "verified" /\ NoInteger(v.timestamp)) => ~v.ok

\* ------------------------------------------------------------------------
\* Replays
\* ------------------------------------------------------------------------

\* Two deliveries of one signed request.
SameDelivery(r, q) == r # q /\ h[r].input # 0 /\ h[r].input = h[q].input

\* C12: once a signed request has been accepted, a later delivery of the
\* identical signature, timestamp and body is not accepted again.
C12_ReplayRejected ==
  \A r, q \in Reqs : SameDelivery(r, q) => ~(h[r].auth = "ok" /\ h[q].auth = "ok")

\* The handler of request r gets the verifier's answer in this step.
Verifies(r) == h[r].pc = "reading" /\ h'[r].pc # "reading"

\* C12, amended: a delivery verified more than 300 seconds from its
\* timestamp is rejected and dispatches nothing, whether or not the same
\* signed request was accepted before; an accepted delivery dispatches at
\* most one task.
C12_ReplayBoundedByWindow ==
  /\ [](\A r \in Reqs : Len(h[r].invoked) <= 1)
  /\ [][\A r \in Reqs :
         ( /\ Verifies(r)
           /\ IsDecimal(In(r).timestamp)
           /\ (now - Seconds(In(r).timestamp) > 300 \/ Seconds(In(r).timestamp) - now > 300) )
         => (h'[r].auth = "bad" /\ h'[r].invoked = <<>> /\ h'[r].resp.status = 401)]_vars

\* A signed request accepted in its window and rejected when delivered
\* again 301 seconds after its timestamp.
C12_Witness ==
  \E r, q \in Reqs :
    /\ SameDelivery(r, q)
    /\ env = SenderSecret
    /\ h[r].auth = "ok" /\ h[r].invoked # <<>>
    /\ h[q].auth = "bad" /\ h[q].resp.status = 401 /\ now = 1301
    /\ In(r).signature = generateSlackSignature(SenderSecret, In(r).timestamp, In(r).body)

\* ------------------------------------------------------------------------
\* The handler's responses
\* ------------------------------------------------------------------------

\* The request reaches the reword handler: every request does, except a
\* request with another method than POST in the server variant, which the
\* router answers.
Handled(r) == h[r].input # 0 /\ ~(variant = "server" /\ In(r).method # "POST")

\* Nothing was started for request r.
NothingDispatched(r) ==
  h[r].invoked = <<>> /\ h[r].tpc = "none" /\ h[r].submit = "none" /\ h[r].posts = <<>>

\* The response that the first failing check of the fixed order gives.
ResponseInOrder(r) ==
  IF In(r).method # "POST"
  THEN h[r].resp = [status |-> 405, body |-> [error |-> "Method not allowed"]]
       /\ NothingDispatched(r)
  ELSE IF env = <<>>
  THEN h[r].resp = [status |-> 500, body |-> [error |-> "Server configuration error"]]
       /\ NothingDispatched(r)
  ELSE IF ~h[r].isValid
  THEN h[r].resp = [status |-> 401, body |-> [error |-> "Invalid request signature"]]
       /\ NothingDispatched(r)
  ELSE IF HasEmptyText(r)
  THEN h[r].resp = [status |-> 200, body |-> createErrorResponse(EmptyTextNotice)]
       /\ NothingDispatched(r)
  ELSE /\ h[r].resp = [status |-> 200, body |-> Acknowledgment(variant)]
       /\ Len(h[r].invoked) = 1 /\ h[r].tpc # "none" /\ h[r].submit # "none"

\* C13: every request the handler handles gets exactly one response, the
\* one of the first check that fails in the order method (405), secret
\* (500), signature (401), non-empty text (200 notice); a request passing
\* all four is dispatched and acknowledged, and no other request is.
C13_ResponseByFirstFailingCheck ==
  /\ [](\A r \in Reqs :
          /\ (h[r].resp # NoResp) <=> (h[r].pc = "returned")
          /\ (Handled(r) /\ h[r].pc = "returned") => ResponseInOrder(r)
          /\ (h[r].pc # "returned" /\ h[r].pc # "dispatching") => NothingDispatched(r))
  /\ [][\A r \in Reqs : h[r].resp # NoResp => h'[r].resp = h[r].resp]_vars

\* A request with another method answered 405 while the secret is missing,
\* and a request without signature headers answered 500.
C13_Witness ==
  /\ variant # "server" /\ env = <<>>
  /\ \E r, q \in Reqs :
       /\ h[r].input # 0 /\ In(r).method = "GET" /\ h[r].resp.status = 405
       /\ h[q].input # 0 /\ In(q).method = "POST" /\ In(q).signature = NULL
       /\ h[q].resp.status = 500

\* C14: every accepted request is answered with the acknowledgment (HTTP
\* 200, ephemeral), also when its transform call or its callback POST never
\* completes.
C14_AckWithoutWaiting ==
  \A r \in Reqs :
    (h[r].auth = "ok" /\ ~HasEmptyText(r)) ~>
      ( /\ h[r].pc = "returned"
        /\ h[r].resp.status = 200
        /\ h[r].resp.body.response_type = "ephemeral"
        /\ h[r].resp.body = Acknowledgment(variant) )

\* An acknowledged request whose transform call has not settled.
C14_Witness ==
  \E r \in Reqs :
    /\ h[r].pc = "returned" /\ h[r].resp.body = Acknowledgment(variant)
    /\ h[r].tpc = "awaitTransform" /\ h[r].transform = Pending /\ h[r].posts = <<>>

\* ------------------------------------------------------------------------
\* Concurrent requests
\* ------------------------------------------------------------------------

\* The text and the callback URL request r declares.
OwnText(r) == Str(trim(PayloadOf[h[r].input].text))
OwnUrl(r) == Str(PayloadOf[h[r].input].response_url)

\* The bodies that are built from request r's own text, transform result,
\* transform error or POST error.
OwnBodies(r) ==
  { createSlackResponse(OwnText(r), h[r].transform.text) }
    \cup { createErrorResponse("Error: " \o d) :
             d \in { StringOf(h[r].transform.err), h[r].transform.err.message,
                     StringOf(FetchFailed), FetchFailed.message,
                     StringOf(BodyUnreadable), BodyUnreadable.message } }

\* Requests r and q declare distinct callback URLs and distinct texts.
Distinct(r, q) ==
  /\ r # q /\ h[r].invoked # <<>> /\ h[q].invoked # <<>>
  /\ OwnUrl(r) # OwnUrl(q) /\ OwnText(r) # OwnText(q)

\* C15: of two requests with distinct callback URLs and texts, each
\* callback URL receives bodies built from its own request only: every POST
\* of a request goes to its own URL and carries its own text with its own
\* transform result, or its own error.
C15_NoCrossTalk ==
  \A r, q \in Reqs :
    Distinct(r, q) =>
      \A i \in 1..Len(h[r].posts) :
        /\ h[r].posts[i].url = OwnUrl(r)
        /\ h[r].posts[i].url # OwnUrl(q)
        /\ h[r].posts[i].body \in OwnBodies(r)
        /\ h[r].posts[i].body # createSlackResponse(OwnText(q), h[q].transform.text)

\* Two such requests with their POSTs in flight at the same time, one after
\* a transform result and one after a transform error.
C15_Witness ==
  \E r, q \in Reqs :
    /\ Distinct(r, q)
    /\ h[r].tpc = "awaitPost" /\ h[q].tpc = "awaitPost"
    /\ h[r].transform.kind = "ok" /\ h[q].transform.kind = "error"

\* ------------------------------------------------------------------------
\* The empty-input notice
\* ------------------------------------------------------------------------

\* A verified request with empty or whitespace-only text has been answered.
EmptyTextAnswered(r) == h[r].auth = "ok" /\ HasEmptyText(r) /\ h[r].pc = "returned"

\* C16: a verified request whose text is empty or whitespace only is
\* answered with HTTP 200 and the failure rendering (ephemeral, warning
\* marker) with the message "Please provide a message to reword. Usage:
\* /reword <your message>".
C16_EmptyNoticePlain ==
  \A r \in Reqs :
    EmptyTextAnswered(r) =>
      h[r].resp =
        [ status |-> 200,
          body |-> [ response_type |-> "ephemeral",
                     text |-> ":warning: Please provide a message to reword. Usage: /reword <your message>" ] ]

\* C16, amended: the message carries the usage between grave accents.
C16_EmptyNoticeWithAccents ==
  \A r \in Reqs :
    EmptyTextAnswered(r) =>
      h[r].resp =
        [ status |-> 200,
          body |-> [ response_type |-> "ephemeral",
                     text |-> ":warning: Please provide a message to reword. Usage: "
                                \o Grave \o "/reword <your message>" \o Grave ] ]

\* Both an empty and a whitespace-only text have been answered.
C16_Witness ==
  \E r, q \in Reqs :
    /\ EmptyTextAnswered(r) /\ In(r).body = BodyEmpty
    /\ EmptyTextAnswered(q) /\ In(q).body = BodyBlank
    /\ h[r].resp.status = 200 /\ h[q].resp.status = 200

\* ------------------------------------------------------------------------
\* Host capabilities
\* ------------------------------------------------------------------------

\* Two returned deliveries of one request to the handler that takes an
\* optional context, one with waitUntil and one without, with the same
\* verdict of the verifier.
WithAndWithout(r, q) ==
  /\ variant = "edge"
  /\ SameDelivery(r, q)
  /\ h[r].ctx /\ ~h[q].ctx
  /\ h[r].pc = "returned" /\ h[q].pc = "returned"
  /\ h[r].auth = h[q].auth

\* C17: whether or not waitUntil is offered, the handler gives the same
\* response and starts the same task exactly once; only the submission
\* differs, and a task is registered with waitUntil whenever it is offered.
C17_SameUnderEveryHost ==
  /\ \A r, q \in Reqs :
       WithAndWithout(r, q) =>
         /\ h[r].resp = h[q].resp
         /\ h[r].invoked = h[q].invoked
         /\ (h[r].tpc = "none") <=> (h[q].tpc = "none")
  /\ \A r \in Reqs :
       (variant = "edge" /\ h[r].pc = "returned" /\ h[r].tpc # "none") =>
         /\ Len(h[r].invoked) = 1
         /\ h[r].resp = [status |-> 200, body |-> Acknowledgment(variant)]
         /\ h[r].submit = (IF h[r].ctx THEN "waitUntil" ELSE "catch")

\* The same accepted request acknowledged with and without waitUntil.
C17_Witness ==
  \E r, q \in Reqs :
    /\ WithAndWithout(r, q)
    /\ h[r].invoked # <<>> /\ h[q].invoked # <<>>
    /\ h[r].submit = "waitUntil" /\ h[q].submit = "catch"
    /\ h[r].resp.body = Acknowledgment(variant)

\* ------------------------------------------------------------------------
\* Exceptions in the verifier
\* ------------------------------------------------------------------------

MaxPieces == 3

\* Pieces of a form body, each with the name and the value it stands for;
\* the empty piece stands for nothing.
ParsePieces ==
  { [raw |-> <<"t", "e", "x", "t", "=", "h", "i">>, name |-> <<"t", "e", "x", "t">>, value |-> <<"h", "i">>],
    [raw |-> <<"t", "e", "x", "t", "=">>, name |-> <<"t", "e", "x", "t">>, value |-> <<>>],
    [raw |-> <<"t", "e", "x", "t">>, name |-> <<"t", "e", "x", "t">>, value |-> <<>>],
    [raw |-> <<"t", "e", "x", "t", "=", "a", "%", "2", "0", "b", "+", "c">>, name |-> <<"t", "e", "x", "t">>, value |-> <<"a", " ", "b", " ", "c">>],
    [raw |-> <<"r", "e", "s", "p", "o", "n", "s", "e", "_", "u", "r", "l", "=", "u", "1">>, name |-> <<"r", "e", "s", "p", "o", "n", "s", "e", "_", "u", "r", "l">>, value |-> <<"u", "1">>],
    [raw |-> <<"t", "e", "a", "m", "_", "i", "d", "=", "T", "1">>, name |-> <<"t", "e", "a", "m", "_", "i", "d">>, value |-> <<"T", "1">>],
    [raw |-> <<"f", "o", "o", "=", "t", "e", "x", "t">>, name |-> <<"f", "o", "o">>, value |-> <<"t", "e", "x", "t">>],
    [raw |-> <<"?", "t", "e", "x", "t", "=", "q">>, name |-> <<"?", "t", "e", "x", "t">>, value |-> <<"q">>],
    [raw |-> <<"=", "x">>, name |-> <<>>, value |-> <<"x">>],
    [raw |-> <<"t", "e", "x", "t", "2", "=", "n", "o">>, name |-> <<"t", "e", "x", "t", "2">>, value |-> <<"n", "o">>],
    [raw |-> <<>>, name |-> <<>>, value |-> <<>>] }

PInit ==
  /\ variant = "none" /\ env = <<>> /\ now = 0 /\ thread = 0 /\ h = <<>>
  /\ v = [phase |-> "building", pieces |-> <<>>, body |-> <<>>, payload |-> <<>>]

\* One more piece is sent, after an "&" when it is not the first.
AddPiece ==
  /\ v.phase = "building"
  /\ Len(v.pieces) < MaxPieces
  /\ \E p \in ParsePieces :
       v' = [v EXCEPT !.pieces = Append(@, p),
                      !.body = IF v.pieces = <<>> THEN p.raw ELSE @ \o <<"&">> \o p.raw]
  /\ UNCHANGED hvars

Parse ==
  /\ v.phase = "building"
  /\ v' = [v EXCEPT !.phase = "parsed", !.payload = parseSlashCommandPayload(v.body)]
  /\ UNCHANGED hvars

PNext == AddPiece \/ Parse

ParseSpec == PInit /\ [][PNext]_vars

\* The name of piece i: a "?" that opens the body is not part of it.
NameAt(pieces, i) ==
  IF i = 1 /\ pieces[1].name # <<>> /\ Head(pieces[1].name) = "?"
  THEN Tail(pieces[1].name) ELSE pieces[i].name

\* The value the pieces give to a key: that of the first piece with that
\* name, the empty string when no piece has it.
FirstValue(pieces, key) ==
  LET at == {i \in 1..Len(pieces) : pieces[i].raw # <<>> /\ NameAt(pieces, i) = key}
  IN  IF at = {} THEN <<>> ELSE pieces[CHOOSE i \in at : \A j \in at : i <= j].value

\* C19: parse gives a payload for every body; a field whose key is absent
\* or has an empty value is the empty string, other keys are ignored, the
\* empty body gives empty fields only, and text and the callback URL come
\* from the keys text and response_url only.
C19_ParseTotal ==
  v.phase = "parsed" =>
    /\ DOMAIN v.payload = {"token", "team_id", "team_domain", "channel_id", "channel_name", "user_id", "user_name", "command", "text", "response_url", "trigger_id"}
    /\ \A f \in DOMAIN v.payload : v.payload[f] = FirstValue(v.pieces, FieldKeys[f])
    /\ v.payload.text = FirstValue(v.pieces, <<"t", "e", "x", "t">>)
    /\ v.payload.response_url =
         FirstValue(v.pieces, <<"r", "e", "s", "p", "o", "n", "s", "e", "_", "u", "r", "l">>)
    /\ v.body = <<>> => \A f \in DOMAIN v.payload : v.payload[f] = <<>>

\* A body with a key outside the fixed set, a key with an empty value and
\* no callback URL has been parsed.
C19_Witness ==
  /\ v.phase = "parsed"
  /\ \E i, j \in 1..Len(v.pieces) :
       /\ v.pieces[i].name = <<"f", "o", "o">>
       /\ v.pieces[j].raw = <<"t", "e", "x", "t", "=">>
  /\ v.payload.text = <<>> /\ v.payload.response_url = <<>> /\ v.payload.token = <<>>

\* ------------------------------------------------------------------------
\* Visibility
\* ------------------------------------------------------------------------

\* C20: every acknowledgment, success rendering and failure rendering the
\* system emits, in an HTTP response or in a callback POST, has the scope
\* ephemeral; none has the scope in_channel.
C20_AlwaysEphemeral ==
  \A r \in Reqs :
    /\ h[r].resp.status = 200 =>
         /\ "response_type" \in DOMAIN h[r].resp.body
         /\ h[r].resp.body.response_type = "ephemeral"
    /\ \A i \in 1..Len(h[r].posts) :
         /\ "response_type" \in DOMAIN h[r].posts[i].body
         /\ h[r].posts[i].body.response_type = "ephemeral"
         /\ h[r].posts[i].body.response_type # "in_channel"

\* An acknowledgment, an empty-input notice, a posted success rendering and
\* a posted failure rendering in one state.
C20_Witness ==
  \E r, q \in Reqs :
    /\ h[r].resp.body = Acknowledgment(variant)
    /\ h[r].posts # <<>> /\ IsSuccessRendering(h[r].posts[1].body)
    /\ \/ h[q].posts # <<>> /\ IsFailureRendering(h[q].posts[1].body)
       \/ h[q].resp.body = createErrorResponse(EmptyTextNotice)

\* ------------------------------------------------------------------------
\* The formatter on its own: two texts written word by word, then rendered
\* ------------------------------------------------------------------------

MaxWords == 2

\* Words a text is made of: plain words, white space, the warning marker
\* itself and the markup of the context block.
Words == {"hi", " ", ":warning: ", "_Original: x_", "*Your reworded message:*"}

FInit ==
  /\ variant = "none" /\ env = <<>> /\ now = 0 /\ thread = 0 /\ h = <<>>
  /\ v = [ phase |-> "writing", message |-> "", nm |-> 0, reworded |-> "", nr |-> 0,
           rendering |-> [response_type |-> "none"] ]

\* One more word of the message (the original message, or the message of a
\* failure).
WriteMessage ==
  /\ v.phase = "writing"
  /\ v.nm < MaxWords
  /\ \E w \in Words : v' = [v EXCEPT !.message = @ \o w, !.nm = @ + 1]
  /\ UNCHANGED hvars

\* One more word of the transformed text.
WriteReworded ==
  /\ v.phase = "writing"
  /\ v.nr < MaxWords
  /\ \E w \in Words : v' = [v EXCEPT !.reworded = @ \o w, !.nr = @ + 1]
  /\ UNCHANGED hvars

FormatFailure ==
  /\ v.phase = "writing"
  /\ v' = [v EXCEPT !.phase = "failure", !.rendering = createErrorResponse(v.message)]
  /\ UNCHANGED hvars

FormatSuccess ==
  /\ v.phase = "writing"
  /\ v' = [v EXCEPT !.phase = "success", !.rendering = createSlackResponse(v.message, v.reworded)]
  /\ UNCHANGED hvars

FNext == WriteMessage \/ WriteReworded \/ FormatFailure \/ FormatSuccess

FormatSpec == FInit /\ [][FNext]_vars

\* C21: for every message, the empty one included, the failure rendering is
\* ephemeral, has no blocks, and has one text field: the warning marker
\* ":warning: " followed by the message as it was given.
C21_FailureRendering ==
  v.phase = "failure" =>
    /\ DOMAIN v.rendering = {"response_type", "text"}
    /\ "blocks" \notin DOMAIN v.rendering
    /\ v.rendering.response_type = "ephemeral"
    /\ v.rendering.text = ":warning: " \o v.message

\* The failure rendering of the empty message.
C21_Witness ==
  v.phase = "failure" /\ v.message = "" /\ v.rendering.text = ":warning: "

\* C22: for every original and transformed text, the success rendering has
\* exactly four blocks: the header section, a section whose text is exactly
\* the transformed text, a divider, and a context block holding the
\* original text; the header and the divider hold neither text, and no
\* block is built from both.
C22_SuccessRendering ==
  v.phase = "success" =>
    LET b == v.rendering.blocks
    IN  /\ DOMAIN v.rendering = {"response_type", "blocks"}
        /\ Len(b) = 4
        /\ b[1] = [type |-> "section", text |-> "*Your reworded message:*"]
        /\ b[2] = [type |-> "section", text |-> v.reworded]
        /\ b[3] = [type |-> "divider", text |-> ""]
        /\ b[4] = [type |-> "context", text |-> "_Original: " \o v.message \o "_"]

\* A success rendering of two different non-empty texts.
C22_Witness ==
  /\ v.phase = "success"
  /\ v.message = "hi " /\ v.reworded = " hi"
  /\ v.rendering.blocks[2].text = " hi"
  /\ v.rendering.blocks[4].text = "_Original: hi _"

\* ------------------------------------------------------------------------
\* Methods other than POST in the standalone server
\* ------------------------------------------------------------------------

\* C23: in the standalone server variant, a request to the reword path
\* with another method than POST is answered with HTTP 405.
C23_ServerAnswers405 ==
  \A r \in Reqs :
    (variant = "server" /\ h[r].input # 0 /\ In(r).method # "POST" /\ h[r].pc = "returned") =>
      h[r].resp.status = 405

\* ------------------------------------------------------------------------
\* The synchronous handler variants: the transform call is awaited by the
\* handler itself and its result is the HTTP response
\* ------------------------------------------------------------------------

\* Parsing and validation, then the call of generateText, which the handler
\* awaits.

SyncCall(r) ==
  LET SyncCalled(s) ==
        LET payload == PayloadOf[s.input]
        IN  IF IsFalsy(payload.text) \/ trim(payload.text) = <<>>
            THEN [s EXCEPT !.pc = "returned",
                           !.resp = [status |-> 200, body |-> createErrorResponse(EmptyTextNotice)]]
            ELSE [s EXCEPT !.pc = "awaitTransform", !.invoked = Append(@, Str(trim(payload.text)))]
  IN  /\ thread = 0
      /\ h[r].pc = "verified"
      /\ h' = [h EXCEPT ![r] = SyncCalled(@)]
      /\ UNCHANGED <<v, variant, env, now, thread>>

\* The transform call of a synchronous handler settles.
SyncSettle(r) ==
  /\ h[r].pc = "awaitTransform"
  /\ h[r].transform = Pending
  /\ \E out \in TransformOutcomes : h' = [h EXCEPT ![r].transform = out]
  /\ UNCHANGED <<v, variant, env, now, thread>>

\* A handler that answers and also posts its rendering to the callback URL.
SyncAnswered_AlsoPosts(vt, s) ==
  LET rendering == IF s.transform.kind = "ok"
                   THEN createSlackResponse(s.invoked[1], s.transform.text)
                   ELSE createErrorResponse(ErrorText(vt, s.transform.err))
  IN  [IssuePost(s, rendering, FALSE) EXCEPT !.pc = "returned", !.resp = [status |-> 200, body |-> rendering]]

\* The handler resumes after await generateText and returns the success
\* rendering, or its catch block returns the failure rendering.
SyncAnswered(vt, s) ==
  [s EXCEPT !.pc = "returned",
            !.resp = [ status |-> 200,
                       body |-> IF s.transform.kind = "ok"
                                THEN createSlackResponse(s.invoked[1], s.transform.text)
                                ELSE createErrorResponse(ErrorText(vt, s.transform.err)) ]]

SyncReturn(r) ==
  /\ thread = 0
  /\ h[r].pc = "awaitTransform"
  /\ h[r].transform # Pending
  /\ h' = [h EXCEPT ![r] = SyncAnswered(variant, @)]
  /\ UNCHANGED <<v, variant, env, now, thread>>

SyncInit ==
  /\ v = VIdle
  /\ variant = "sync"
  /\ env \in Secrets
  /\ now = 1000
  /\ thread = 0
  /\ h = [r \in Reqs |-> Idle]

SyncNext ==
  \/ \E r \in Reqs : Receive(r)
  \/ \E r \in Reqs : Authenticate(r)
  \/ \E r \in Reqs : SyncCall(r)
  \/ \E r \in Reqs : SyncSettle(r)
  \/ \E r \in Reqs : SyncReturn(r)
  \/ Tick

SyncSpec == SyncInit /\ [][SyncNext]_vars

\* The description of a caught error as the serverless handlers write it:
\* the message of an Error, String(error) of anything else.
Description(err) == IF err.isError THEN err.message ELSE StringOf(err)

\* C24: a synchronous handler answers an accepted request with HTTP 200 and
\* the success rendering when the transform call succeeded, with HTTP 200
\* and the failure rendering "Error: <description>" when it failed, only
\* after the call has settled; it starts no task and issues no POST.
C24_SyncAnswersInline ==
  \A r \in Reqs :
    /\ h[r].posts = <<>> /\ h[r].submit = "none" /\ h[r].tpc = "none"
    /\ (h[r].auth = "ok" /\ ~HasEmptyText(r) /\ h[r].pc = "returned") =>
         /\ h[r].resp.status = 200
         /\ h[r].transform # Pending
         /\ h[r].transform.kind = "ok" =>
              h[r].resp.body = createSlackResponse(OwnText(r), h[r].transform.text)
         /\ h[r].transform.kind = "error" =>
              h[r].resp.body =
                [ response_type |-> "ephemeral",
                  text |-> ":warning: Error: " \o Description(h[r].transform.err) ]

\* One request answered with the success rendering and one with the
\* failure rendering of a thrown value that is not an Error.
C24_Witness ==
  \E r, q \in Reqs :
    /\ variant = "sync"
    /\ h[r].pc = "returned" /\ h[r].transform.kind = "ok" /\ IsSuccessRendering(h[r].resp.body)
    /\ h[q].pc = "returned" /\ h[q].transform.err = ThrownText
    /\ h[q].resp.body.text = ":warning: Error: rate limited"

\* ------------------------------------------------------------------------
\* The ends of the acceptance window
\* ------------------------------------------------------------------------

\* The signature presented is the one of the presented timestamp and body
\* under the secret the server holds.
SignatureCorrect ==
  v.signature = generateSlackSignature(v.secret, v.timestamp, v.body)

\* C25: the acceptance window is closed at its ends: a request with a
\* correct signature whose timestamp is 300 seconds or less from the
\* current time, exactly 300 seconds in the past or in the future
\* included, is accepted.
C25_WindowClosedAtEnds ==
  ( /\ v.phase = "verified"
    /\ InWindow(v.now, v.timestamp)
    /\ SignatureCorrect ) =>
    v.ok /\ v.status = 0

\* A request signed exactly 300 seconds ago, accepted.
C25_Witness ==
  /\ v.phase = "verified"
  /\ v.timestamp = <<"7", "0", "0">> /\ v.now = 1000
  /\ SignatureCorrect
  /\ v.ok

\* ------------------------------------------------------------------------
\* The standalone server with two versions: the reword command, the message
\* shortcut and the interactivity endpoint
\* ------------------------------------------------------------------------

\* Number of requests the two-version server handles at once.
NumDual == 1

DReqs == 1..NumDual

\* The value of a property that is absent (undefined).
undefined == <<"undefined-value">>

\* URLSearchParams.get: the value of the first pair with that name, null
\* when there is none.
SearchParamsGet(body, name) ==
  LET m == {p \in SearchParams(body) : p.name = name}
  IN  IF m = {} THEN NULL
      ELSE (CHOOSE p \in m : \A q \in m : p.pos <= q.pos).value

\* What the handlers read of a parsed payload: payload.type,
\* payload.message?.text, payload.text, payload.response_url and, of
\* payload.actions?.[0], action_id and value. json tells what JSON.parse
\* did: returned an object, returned null, or threw a SyntaxError.
JsonValue(json, type, messageText, text, response_url, action_id, value) ==
  [ json |-> json, type |-> type, messageText |-> messageText, text |-> text,
    response_url |-> response_url, action_id |-> action_id, value |-> value ]

\* The values of payload.type the handlers name, and one they do not.
PayloadTypes ==
  [ message_action |-> <<"m", "e", "s", "s", "a", "g", "e", "_", "a", "c", "t", "i", "o", "n">>,
    shortcut |-> <<"s", "h", "o", "r", "t", "c", "u", "t">>,
    block_actions |-> <<"b", "l", "o", "c", "k", "_", "a", "c", "t", "i", "o", "n", "s">>,
    view_submission |-> <<"v", "i", "e", "w", "_", "s", "u", "b", "m", "i", "s", "s", "i", "o", "n">> ]

\* The payload texts the platform and others send, each with the value
\* JSON.parse gives for it.
JsonTexts ==
  { [ text |-> <<"{", "\"", "t", "y", "p", "e", "\"", ":", "\"", "m", "e", "s", "s", "a", "g", "e", "_", "a", "c", "t", "i", "o", "n", "\"", ",", "\"", "m", "e", "s", "s", "a", "g", "e", "\"", ":", "{", "\"", "t", "e", "x", "t", "\"", ":", "\"", "h", "i", "\"", "}", ",", "\"", "r", "e", "s", "p", "o", "n", "s", "e", "_", "u", "r", "l", "\"", ":", "\"", "u", "1", "\"", "}">>,
      value |-> JsonValue("object", PayloadTypes.message_action, <<"h", "i">>, undefined, <<"u", "1">>, undefined, undefined) ],
    [ text |-> <<"{", "\"", "t", "y", "p", "e", "\"", ":", "\"", "s", "h", "o", "r", "t", "c", "u", "t", "\"", ",", "\"", "t", "e", "x", "t", "\"", ":", "\"", "y", "o", "\"", "}">>,
      value |-> JsonValue("object", PayloadTypes.shortcut, undefined, <<"y", "o">>, undefined, undefined, undefined) ],
    [ text |-> <<"{", "\"", "t", "y", "p", "e", "\"", ":", "\"", "m", "e", "s", "s", "a", "g", "e", "_", "a", "c", "t", "i", "o", "n", "\"", ",", "\"", "m", "e", "s", "s", "a", "g", "e", "\"", ":", "{", "\"", "t", "e", "x", "t", "\"", ":", "\"", "\"", "}", ",", "\"", "r", "e", "s", "p", "o", "n", "s", "e", "_", "u", "r", "l", "\"", ":", "\"", "u", "1", "\"", "}">>,
      value |-> JsonValue("object", PayloadTypes.message_action, <<>>, undefined, <<"u", "1">>, undefined, undefined) ],
    [ text |-> <<"{", "\"", "t", "y", "p", "e", "\"", ":", "\"", "m", "e", "s", "s", "a", "g", "e", "_", "a", "c", "t", "i", "o", "n", "\"", ",", "\"", "m", "e", "s", "s", "a", "g", "e", "\"", ":", "{", "\"", "t", "e", "x", "t", "\"", ":", "\"", " ", "\"", "}", ",", "\"", "r", "e", "s", "p", "o", "n", "s", "e", "_", "u", "r", "l", "\"", ":", "\"", "u", "1", "\"", "}">>,
      value |-> JsonValue("object", PayloadTypes.message_action, <<" ">>, undefined, <<"u", "1">>, undefined, undefined) ],
    [ text |-> <<"{", "\"", "t", "y", "p", "e", "\"", ":", "\"", "v", "i", "e", "w", "_", "s", "u", "b", "m", "i", "s", "s", "i", "o", "n", "\"", "}">>,
      value |-> JsonValue("object", PayloadTypes.view_submission, undefined, undefined, undefined, undefined, undefined) ],
    [ text |-> <<"{", "\"", "t", "y", "p", "e", "\"", ":", "\"", "b", "l", "o", "c", "k", "_", "a", "c", "t", "i", "o", "n", "s", "\"", ",", "\"", "a", "c", "t", "i", "o", "n", "s", "\"", ":", "[", "{", "\"", "a", "c", "t", "i", "o", "n", "_", "i", "d", "\"", ":", "\"", "c", "o", "p", "y", "_", "c", "a", "s", "u", "a", "l", "\"", ",", "\"", "v", "a", "l", "u", "e", "\"", ":", "\"", "h", "e", "y", "\"", "}", "]", "}">>,
      value |-> JsonValue("object", PayloadTypes.block_actions, undefined, undefined, undefined, <<"c", "o", "p", "y", "_", "c", "a", "s", "u", "a", "l">>, <<"h", "e", "y">>) ],
    [ text |-> <<"{", "\"", "t", "y", "p", "e", "\"", ":", "\"", "b", "l", "o", "c", "k", "_", "a", "c", "t", "i", "o", "n", "s", "\"", ",", "\"", "a", "c", "t", "i", "o", "n", "s", "\"", ":", "[", "{", "\"", "a", "c", "t", "i", "o", "n", "_", "i", "d", "\"", ":", "\"", "v", "o", "t", "e", "\"", ",", "\"", "v", "a", "l", "u", "e", "\"", ":", "\"", "h", "e", "y", "\"", "}", "]", "}">>,
      value |-> JsonValue("object", PayloadTypes.block_actions, undefined, undefined, undefined, <<"v", "o", "t", "e">>, <<"h", "e", "y">>) ],
    [ text |-> <<"{", "}">>,
      value |-> JsonValue("object", undefined, undefined, undefined, undefined, undefined, undefined) ],
    [ text |-> <<"n", "u", "l", "l">>,
      value |-> JsonValue("null", undefined, undefined, undefined, undefined, undefined, undefined) ] }

\* JSON.parse: the value of a text that is JSON, a SyntaxError for any
\* other text.
JSONparse(text) ==
  IF \E j \in JsonTexts : j.text = text
  THEN (CHOOSE j \in JsonTexts : j.text = text).value
  ELSE JsonValue("SyntaxError", undefined, undefined, undefined, undefined, undefined, undefined)

\* String.prototype.startsWith.
startsWith(s, prefix) ==
  Len(s) >= Len(prefix) /\ SubSeq(s, 1, Len(prefix)) = prefix

\* The form body of an interaction: one field, payload, holding the text.
PayloadBody(text) == <<"p", "a", "y", "l", "o", "a", "d", "=">> \o text

\* A request to one of the three routes of the server; the router passes
\* POST requests only.
DualPost(ep, signature, body) ==
  [ep |-> ep, signature |-> signature, timestamp |-> TsFresh, body |-> body]

\* The requests the server receives.
DualInputs ==
  LET DualSigned(ep, body) == DualPost(ep, generateSlackSignature(SenderSecret, TsFresh, body), body)
      NotJson == <<"{", "o", "o", "p", "s">>
      LongBody(n) == <<"t", "e", "x", "t", "=">> \o [i \in 1..n |-> "a"]
                       \o <<"&", "r", "e", "s", "p", "o", "n", "s", "e", "_", "u", "r", "l", "=", "u", "1">>
  IN  { DualSigned("reword", b) :
          b \in {BodyHi, BodyYo, BodyBlank, LongBody(49), LongBody(50)} }
        \cup { DualSigned("shortcut", PayloadBody(j.text)) : j \in JsonTexts }
        \cup { DualSigned("shortcut", b) : b \in {PayloadBody(NotJson), PayloadBody(<<>>), BodyHi} }
        \cup { DualSigned("interactive", PayloadBody(j.text)) :
                 j \in {k \in JsonTexts : k.value.type \in {PayloadTypes.block_actions, PayloadTypes.message_action} \/ k.value.json = "null"} }
        \cup { DualSigned("interactive", b) : b \in {PayloadBody(NotJson), BodyHi} }
        \cup { DualPost("shortcut", SigInvalid, PayloadBody(<<"{", "}">>)),
               DualPost("interactive", SigInvalid, PayloadBody(NotJson)) }

\* Errors thrown inside the handlers and the task.
JsonParseError == [isError |-> TRUE, name |-> "SyntaxError", message |-> "Unexpected token in JSON"]
NullPayloadError == [isError |-> TRUE, name |-> "TypeError", message |-> "Cannot read properties of null (reading 'type')"]
NoUrlError == [isError |-> TRUE, name |-> "TypeError", message |-> "Cannot read properties of undefined (reading 'slice')"]

\* Promise.all over the two calls.
AllPending == [kind |-> "pending", err |-> NoError]
AllFulfilled == [kind |-> "fulfilled", err |-> NoError]
AllRejected(err) == [kind |-> "rejected", err |-> err]

DIdle ==
  [ req |-> [ep |-> "none", signature |-> NULL, timestamp |-> NULL, body |-> <<>>], pc |-> "idle", isValid |-> FALSE, resp |-> NoResp, thrown |-> NoError,
    tpc |-> "none", taskError |-> NoError, messageText |-> <<>>, responseUrl |-> undefined, invoked |-> <<>>,
    casual |-> Pending, formal |-> Pending, all |-> AllPending, posts |-> <<>> ]

\* How each of the two calls of generateText can settle.
DualOutcomes(style) ==
  { [ kind |-> "ok", err |-> NoError,
      text |-> IF style = "casual" THEN "hey, could you help with this?"
               ELSE "Could you please help with this?" ],
    [kind |-> "error", text |-> "", err |-> ApiError],
    [kind |-> "error", text |-> "", err |-> ThrownText] }

\* The answer of the framework to a handler that threw.
InternalServerError == [status |-> 500, body |-> [text |-> "Internal Server Error"]]

\* ------------------------------------------------------------------------
\* Renderings of the two-version server (emoji are written by name)
\* ------------------------------------------------------------------------

createDualVersionResponse(originalMessage, versions) ==
  [ response_type |-> "ephemeral",
    blocks |-> << [ type |-> "section", block_id |-> "casual_block",
                    text |-> "*:speech_balloon: Casual:* " \o versions.casual,
                    action_id |-> "copy_casual", value |-> versions.casual ],
                  [ type |-> "section", block_id |-> "formal_block",
                    text |-> "*:necktie: Formal:* " \o versions.formal,
                    action_id |-> "copy_formal", value |-> versions.formal ],
                  [ type |-> "context", block_id |-> "",
                    text |-> "_Original: " \o originalMessage \o "_",
                    action_id |-> "", value |-> "" ] >> ]

DualAcknowledgment(ep) ==
  [ response_type |-> "ephemeral",
    text |-> IF ep = "shortcut" THEN ":hourglass_flowing_sand: Rewording message..."
             ELSE ":hourglass_flowing_sand: Rewording your message..." ]

NoTextWarning == [response_type |-> "ephemeral", text |-> ":warning: Could not extract message text."]

\* The answer to a click on a copy button.
CopyResponse(ep, textToCopy) ==
  [ response_type |-> "ephemeral", replace_original |-> FALSE,
    text |-> IF ep = "shortcut"
             THEN ":clipboard: *Ready to copy:*\n\n" \o textToCopy \o "\n\n_Select the text above and copy it._"
             ELSE ":clipboard: *Ready to copy:*\n\n" \o Grave \o Grave \o Grave \o textToCopy
                    \o Grave \o Grave \o Grave \o "\n\n_Select and copy the text above._" ]

SHORT_MESSAGE_THRESHOLD == 50

\* A choice that counts the threshold itself as short.
selectModel_Inclusive(messageLength) ==
  IF messageLength <= SHORT_MESSAGE_THRESHOLD THEN "anthropic/claude-sonnet-4-20250514"
  ELSE "anthropic/claude-opus-4-20250514"

selectModel(messageLength) ==
  IF messageLength < SHORT_MESSAGE_THRESHOLD THEN "anthropic/claude-sonnet-4-20250514"
  ELSE "anthropic/claude-opus-4-20250514"

\* ------------------------------------------------------------------------
\* Handlers of the two-version server
\* ------------------------------------------------------------------------

\* The secret is checked before the body is read.

DualReceive(r) ==
  LET DualEarly(secret, s) ==
        IF IsFalsy(secret)
        THEN [s EXCEPT !.pc = "returned", !.resp = JsonError(500, "Server configuration error")]
        ELSE [s EXCEPT !.pc = "reading"]
  IN  /\ thread = 0
      /\ h[r].pc = "idle"
      /\ \E i \in DualInputs : h' = [h EXCEPT ![r] = DualEarly(env, [@ EXCEPT !.req = i])]
      /\ UNCHANGED <<v, variant, env, now, thread>>

\* What verifySlackRequest returns for each configured secret and request,
\* tabulated once (the clock stands at 1000).
DualVerdict ==
  [secret \in Secrets |-> [i \in DualInputs |->
     verifySlackRequest(secret, i.signature, i.timestamp, i.body, 1000)]]

DualAuthenticate(r) ==
  LET DualAuthenticated(secret, s) ==
        LET isValid == DualVerdict[secret][s.req]
        IN  IF ~isValid
            THEN [s EXCEPT !.pc = "returned", !.isValid = isValid,
                           !.resp = JsonError(401, "Invalid request signature")]
            ELSE [s EXCEPT !.pc = "verified", !.isValid = isValid]
  IN  /\ thread = 0
      /\ h[r].pc = "reading"
      /\ h' = [h EXCEPT ![r] = DualAuthenticated(env, @)]
      /\ UNCHANGED <<v, variant, env, now, thread>>

\* The background task is started: it runs up to its await of
\* generateRewordedVersions, which makes both calls of generateText before
\* it awaits Promise.all; then the handler returns the acknowledgment.
DualStarted(s, messageText, responseUrl) ==
  [s EXCEPT !.pc = "returned",
            !.resp = [status |-> 200, body |-> DualAcknowledgment(s.req.ep)],
            !.tpc = "awaitAll",
            !.messageText = messageText,
            !.responseUrl = responseUrl,
            !.invoked = << [ system |-> "casual", model |-> selectModel(Len(messageText)),
                             message |-> Str(messageText) ],
                           [ system |-> "formal", model |-> selectModel(Len(messageText)),
                             message |-> Str(messageText) ] >>]

\* The payload field and its parsed value, for each request, tabulated once.
DualPayloadStr == [i \in DualInputs |-> SearchParamsGet(i.body, <<"p", "a", "y", "l", "o", "a", "d">>)]
DualPayload == [i \in DualInputs |-> JSONparse(DualPayloadStr[i])]
DualCommand == [i \in DualInputs |-> parseSlashCommandPayload(i.body)]

\* The reword command of the two-version server after verification.
RewordHandled(s) ==
  LET payload == DualCommand[s.req]
  IN  IF IsFalsy(payload.text) \/ trim(payload.text) = <<>>
      THEN [s EXCEPT !.pc = "returned",
                     !.resp = [status |-> 200, body |-> createErrorResponse(EmptyTextNotice)]]
      ELSE DualStarted(s, trim(payload.text), payload.response_url)

\* The part shared by the shortcut and the interactivity endpoint: the
\* payload field is required, JSON.parse may throw, reading payload.type of
\* null throws; what is thrown leaves the handler and the framework answers.
Thrown(s, err) == [s EXCEPT !.pc = "returned", !.thrown = err, !.resp = InternalServerError]

\* A default case that refuses what it does not know.
ButtonHandled_Refused(s, payload) ==
  IF payload.type = PayloadTypes.block_actions
       /\ payload.action_id # undefined /\ startsWith(payload.action_id, <<"c", "o", "p", "y", "_">>)
  THEN [s EXCEPT !.pc = "returned",
                 !.resp = [status |-> 200, body |-> CopyResponse(s.req.ep, Str(payload.value))]]
  ELSE [s EXCEPT !.pc = "returned", !.resp = JsonError(400, "Unknown interaction")]

\* A click on a copy button, or the default answer.
ButtonHandled(s, payload) ==
  IF payload.type = PayloadTypes.block_actions
       /\ payload.action_id # undefined /\ startsWith(payload.action_id, <<"c", "o", "p", "y", "_">>)
  THEN [s EXCEPT !.pc = "returned",
                 !.resp = [status |-> 200, body |-> CopyResponse(s.req.ep, Str(payload.value))]]
  ELSE [s EXCEPT !.pc = "returned", !.resp = [status |-> 200, body |-> [ok |-> TRUE]]]

\* payload.message?.text || payload.text || "".
ExtractedText(payload) ==
  IF payload.messageText # undefined /\ payload.messageText # <<>> THEN payload.messageText
  ELSE IF payload.text # undefined /\ payload.text # <<>> THEN payload.text
  ELSE <<>>

ShortcutHandled(s) ==
  LET payloadStr == DualPayloadStr[s.req]
      payload == DualPayload[s.req]
  IN  IF IsFalsy(payloadStr)
      THEN [s EXCEPT !.pc = "returned", !.resp = JsonError(400, "Missing payload")]
      ELSE IF payload.json = "SyntaxError" THEN Thrown(s, JsonParseError)
      ELSE IF payload.json = "null" THEN Thrown(s, NullPayloadError)
      ELSE IF payload.type \in {PayloadTypes.message_action, PayloadTypes.shortcut}
      THEN IF ExtractedText(payload) = <<>>
           THEN [s EXCEPT !.pc = "returned", !.resp = [status |-> 200, body |-> NoTextWarning]]
           ELSE DualStarted(s, ExtractedText(payload), payload.response_url)
      ELSE ButtonHandled(s, payload)

InteractiveHandled(s) ==
  LET payloadStr == DualPayloadStr[s.req]
      payload == DualPayload[s.req]
  IN  IF IsFalsy(payloadStr)
      THEN [s EXCEPT !.pc = "returned", !.resp = JsonError(400, "Missing payload")]
      ELSE IF payload.json = "SyntaxError" THEN Thrown(s, JsonParseError)
      ELSE IF payload.json = "null" THEN Thrown(s, NullPayloadError)
      ELSE ButtonHandled(s, payload)

\* The rest of the handler after verification, in one synchronous block.

DualHandle(r) ==
  LET DualHandled(s) ==
        IF s.req.ep = "reword" THEN RewordHandled(s)
        ELSE IF s.req.ep = "shortcut" THEN ShortcutHandled(s)
        ELSE InteractiveHandled(s)
  IN  /\ thread = 0
      /\ h[r].pc = "verified"
      /\ h' = [h EXCEPT ![r] = DualHandled(@)]
      /\ UNCHANGED <<v, variant, env, now, thread>>

\* ------------------------------------------------------------------------
\* The background task of the two-version server
\* ------------------------------------------------------------------------

\* Promise.all after one more of its promises settled: it is rejected by
\* the first rejection, fulfilled when every promise is fulfilled, and once
\* settled it stays as it is.
\* A combinator that waits for both promises and is fulfilled when one is.
PromiseAll_AnyFulfilled(all, casual, formal, out) ==
  IF all.kind # "pending" THEN all
  ELSE IF casual = Pending \/ formal = Pending THEN all
  ELSE IF casual.kind = "ok" \/ formal.kind = "ok" THEN AllFulfilled
  ELSE AllRejected(out.err)

PromiseAll(all, casual, formal, out) ==
  IF all.kind # "pending" THEN all
  ELSE IF out.kind = "error" THEN AllRejected(out.err)
  ELSE IF casual.kind = "ok" /\ formal.kind = "ok" THEN AllFulfilled
  ELSE all

\* One of the two calls settles, at any time after it was made.

CallSettle(r) ==
  LET CallSettled(s, which, out) ==
        LET t == [s EXCEPT ![which] = out]
        IN  [t EXCEPT !.all = PromiseAll(s.all, t.casual, t.formal, out)]
  IN  /\ h[r].invoked # <<>>
      /\ \E which \in {"casual", "formal"} :
           /\ h[r][which] = Pending
           /\ \E out \in DualOutcomes(which) : h' = [h EXCEPT ![r] = CallSettled(@, which, out)]
      /\ UNCHANGED <<v, variant, env, now, thread>>

\* postToResponseUrl is called: responseUrl.slice throws when there is no
\* URL, otherwise fetch is called (and whatever it does is caught).
PostCalled(s, body) ==
  IF s.responseUrl = undefined THEN [s EXCEPT !.taskError = NoUrlError]
  ELSE [s EXCEPT !.tpc = "awaitPost",
                 !.posts = Append(@, [url |-> Str(s.responseUrl), body |-> body])]

\* The task resumes after await generateRewordedVersions: the two-version
\* rendering is posted, or the catch block posts the failure rendering;
\* what postToResponseUrl throws in the try block is caught by the same
\* catch block, what it throws in the catch block rejects the task.

DualTaskResume(r) ==
  LET DualResumed(s) ==
        LET first == IF s.all.kind = "fulfilled"
                     THEN PostCalled(s, createDualVersionResponse(Str(s.messageText),
                                          [casual |-> s.casual.text, formal |-> s.formal.text]))
                     ELSE [s EXCEPT !.taskError = s.all.err]
            caught == first.taskError
            second == PostCalled([first EXCEPT !.taskError = NoError],
                                 createErrorResponse("Error: " \o StringOf(caught)))
        IN  IF caught = NoError THEN first
            ELSE IF second.taskError = NoError THEN second
            ELSE [second EXCEPT !.tpc = "rejected"]
  IN  /\ thread = 0
      /\ h[r].tpc = "awaitAll"
      /\ h[r].all.kind # "pending"
      /\ h' = [h EXCEPT ![r] = DualResumed(@)]
      /\ UNCHANGED <<v, variant, env, now, thread>>

\* The POST settles; postToResponseUrl catches whatever fetch and the
\* reading of the response throw.
DualPostSettle(r) ==
  /\ thread = 0
  /\ h[r].tpc = "awaitPost"
  /\ \E res \in PostResults : h' = [h EXCEPT ![r].tpc = "done"]
  /\ UNCHANGED <<v, variant, env, now, thread>>

DualInit ==
  /\ v = VIdle
  /\ variant = "dual"
  /\ env \in Secrets
  /\ now = 1000
  /\ thread = 0
  /\ h = [r \in DReqs |-> DIdle]

DualNext ==
  \/ \E r \in DReqs : DualReceive(r)
  \/ \E r \in DReqs : DualAuthenticate(r)
  \/ \E r \in DReqs : DualHandle(r)
  \/ \E r \in DReqs : CallSettle(r)
  \/ \E r \in DReqs : DualTaskResume(r)
  \/ \E r \in DReqs : DualPostSettle(r)

DualSpec == DualInit /\ [][DualNext]_vars

\* ------------------------------------------------------------------------
\* Properties of the shortcut and the interactivity endpoint
\* ------------------------------------------------------------------------

\* Request r was sent to the shortcut or the interactivity endpoint and
\* passed verification.
VerifiedInteraction(r) ==
  h[r].req.ep \in {"shortcut", "interactive"} /\ h[r].pc \in {"verified", "returned"} /\ h[r].isValid

\* The parsed payload of request r.
PayloadIn(r) == DualPayload[h[r].req]

\* C26: in the shortcut and the interactivity endpoint no exception
\* escapes the handler: every verified request, also one whose payload
\* field is not valid JSON, is answered by a response of the handler.
C26_NoExceptionEscapes ==
  \A r \in DReqs :
    (VerifiedInteraction(r) /\ h[r].pc = "returned") =>
      /\ h[r].thrown = NoError
      /\ h[r].resp # InternalServerError

\* C27: in the shortcut endpoint, a verified message action whose
\* extracted text is empty or whitespace only never reaches the
\* dispatcher: it is answered with the warning, and no call of the
\* transform and no POST exist for it.
C27_BlankShortcutNeverDispatched ==
  \A r \in DReqs :
    ( /\ VerifiedInteraction(r) /\ h[r].req.ep = "shortcut"
      /\ PayloadIn(r).json = "object"
      /\ PayloadIn(r).type \in {PayloadTypes.message_action, PayloadTypes.shortcut}
      /\ trim(ExtractedText(PayloadIn(r))) = <<>> ) =>
      /\ h[r].invoked = <<>> /\ h[r].tpc = "none" /\ h[r].posts = <<>>
      /\ h[r].pc = "returned" => h[r].resp = [status |-> 200, body |-> NoTextWarning]

\* The kind of a payload is none of message_action, shortcut, and
\* block_actions with a copy_ action.
Unrecognised(payload) ==
  /\ payload.json = "object"
  /\ payload.type \notin {PayloadTypes.message_action, PayloadTypes.shortcut}
  /\ ~( /\ payload.type = PayloadTypes.block_actions
        /\ payload.action_id # undefined
        /\ Len(payload.action_id) >= 5
        /\ SubSeq(payload.action_id, 1, 5) = <<"c", "o", "p", "y", "_">> )

C29_AllOrNothing ==
  \A r \in DReqs :
    h[r].req.ep = "reword" =>
      /\ Len(h[r].invoked) \in {0, 2}
      /\ h[r].invoked # <<>> =>
           /\ h[r].invoked[1].system = "casual" /\ h[r].invoked[2].system = "formal"
           /\ h[r].invoked[1].message = h[r].invoked[2].message
      /\ Len(h[r].posts) <= 1
      /\ h[r].tpc \in {"awaitPost", "done"} <=> Len(h[r].posts) = 1
      /\ h[r].tpc # "rejected"
      /\ \A i \in 1..Len(h[r].posts) :
           LET b == h[r].posts[i].body
           IN  IF h[r].casual.kind = "ok" /\ h[r].formal.kind = "ok"
               THEN b = createDualVersionResponse(Str(h[r].messageText),
                          [casual |-> "hey, could you help with this?",
                           formal |-> "Could you please help with this?"])
               ELSE /\ IsFailureRendering(b)
                    /\ \E which \in {"casual", "formal"} :
                         /\ h[r][which].kind = "error"
                         /\ b.text = ":warning: Error: " \o StringOf(h[r][which].err)

\* The formal call failed while the casual call was still running, and the
\* failure rendering has been posted.
C29_Witness ==
  \E r \in DReqs :
    /\ h[r].req.ep = "reword"
    /\ h[r].formal.kind = "error" /\ h[r].casual = Pending
    /\ Len(h[r].posts) = 1 /\ IsFailureRendering(h[r].posts[1].body)

\* ------------------------------------------------------------------------
\* The text and the callback URL held by the task
\* ------------------------------------------------------------------------

\* The text of the command payload of request r, and the text after
\* String.prototype.trim.
PayloadText(r) == PayloadOf[h[r].input].text
TrimmedText(r) == trim(PayloadText(r))

\* C30: the text handed to the transform capability, and echoed as the
\* original in the success rendering, is the payload text without its
\* leading and trailing whitespace, and is never empty; every POST of the
\* task goes to the callback URL exactly as the payload carries it.
C30_TrimmedTextOwnUrl ==
  \A r \in Reqs :
    h[r].invoked # <<>> =>
      /\ h[r].invoked = <<Str(TrimmedText(r))>>
      /\ TrimmedText(r) # <<>>
      /\ \A i \in 1..Len(h[r].posts) :
           /\ h[r].posts[i].url = Str(PayloadOf[h[r].input].response_url)
           /\ "blocks" \in DOMAIN h[r].posts[i].body =>
                h[r].posts[i].body.blocks[4].text = "_Original: " \o Str(TrimmedText(r)) \o "_"

\* A request whose text has whitespace on both sides, with its success
\* rendering posted.
C30_Witness ==
  \E r \in Reqs :
    /\ h[r].invoked # <<>>
    /\ IsWhitespace(Head(PayloadText(r)))
    /\ IsWhitespace(PayloadText(r)[Len(PayloadText(r))])
    /\ h[r].posts # <<>>
    /\ "blocks" \in DOMAIN h[r].posts[1].body


\* ------------------------------------------------------------------------
\* Requests without a callback URL
\* ------------------------------------------------------------------------

\* The handlers with the requests that carry text and no response_url.
NoUrlNext ==
  \/ \E r \in Reqs : ReceiveFrom(r, DOMAIN Inputs \ WithUrl)
  \/ \E r \in Reqs : Authenticate(r)
  \/ \E r \in Reqs : StartTask(r)
  \/ \E r \in Reqs : ReturnAck(r)
  \/ \E r \in Reqs : TransformSettle(r)
  \/ \E r \in Reqs : TaskResume(r)
  \/ \E r \in Reqs : PostSettle(r)
  \/ Tick

NoUrlSpec == Init /\ [][NoUrlNext]_vars

\* Request r passed verification and its payload has text and an empty
\* callback URL.
VerifiedNoUrl(r) ==
  /\ h[r].input # 0 /\ h[r].auth = "ok"
  /\ trim(PayloadOf[h[r].input].text) # <<>>
  /\ PayloadOf[h[r].input].response_url = <<>>

\* C31: the callback URL is not validated: a verified request with text and
\* no response_url is never refused, it is acknowledged as working and its
\* task is dispatched with the empty callback URL; every fetch of that task
\* is called with the empty URL and settles as a fetch that sent nothing.
C31_NoUrlStillDispatched ==
  /\ [](\A r \in Reqs :
         VerifiedNoUrl(r) =>
           /\ h[r].pc = "returned" =>
                (h[r].resp = [status |-> 200, body |-> Acknowledgment(variant)] /\ h[r].invoked # <<>>)
           /\ \A i \in 1..Len(h[r].posts) : h[r].posts[i].url = "")
  /\ [][\A r \in Reqs :
          (VerifiedNoUrl(r) /\ h[r].tpc = "awaitPost" /\ h'[r] # h[r]) =>
            h'[r] = AfterPost(variant, h[r], "invalidUrl")]_vars

\* Such a request acknowledged, with its task ended after a fetch of the
\* empty URL.
C31_Witness ==
  \E r \in Reqs :
    /\ VerifiedNoUrl(r)
    /\ h[r].resp = [status |-> 200, body |-> Acknowledgment(variant)]
    /\ h[r].tpc \in {"done", "rejected"}
    /\ h[r].posts # <<>>


\* ------------------------------------------------------------------------
\* The two verifiers
\* ------------------------------------------------------------------------

\* C32: the verifier on Web Crypto and the verifier on Node's crypto module
\* return the same boolean for the same secret, signature header, timestamp
\* header, body and current time.
C32_VerifiersAgree ==
  v.phase = "verified" => (~v.threw /\ v.ok = v.okNode)

\* timingSafeEqual(a, b) is string equality, and the accumulator of two
\* different strings of one length is not zero.
AgreesWithEquality(a, b) ==
  /\ timingSafeEqual(a, b) = (Len(a) = Len(b) /\ \A i \in 1..Len(a) : a[i] = b[i])
  /\ (Len(a) = Len(b) /\ a # b) => XorAccumulate(a, b, 1, Len(a)) # 0

\* The same for every pair of some short strings.
ShortPairsAgree ==
  LET Short == {<<>>, <<"a">>, <<"b">>, <<"a", "b">>, <<"b", "a">>, <<"a", "a">>, <<"a", "b", "a">>,
                <<"a", "b", "c">>, <<"c", "b", "a">>, <<"A", "b", "c">>, <<"a", "b", " ">>,
                <<"0", "0", "0">>, <<"@", "0", "0">>}
  IN  \A a, b \in Short : AgreesWithEquality(a, b)

\* C33: timingSafeEqual(a, b) is true exactly when a and b are the same
\* string, and for strings of the same length that differ the XOR
\* accumulator is not zero; for the signature presented and the expected
\* one, and for every pair of short strings.
C33_TimingSafeEqualIsEquality ==
  /\ ShortPairsAgree
  /\ (v.phase \in {"signed", "verified"} /\ v.signature # NULL /\ v.timestamp # NULL) =>
       AgreesWithEquality(v.signature, expectedSignature(v.secret, v.timestamp, v.body))

\* The comparison has been made for a forged signature of the right length
\* that differs from the expected one in its last character only.
C33_Witness ==
  /\ v.phase = "verified" /\ ~v.threw /\ ~v.ok
  /\ v.signature # NULL /\ v.timestamp # NULL
  /\ LET e == expectedSignature(v.secret, v.timestamp, v.body)
     IN  /\ Len(v.signature) = Len(e)
         /\ SubSeq(v.signature, 1, Len(e) - 1) = SubSeq(e, 1, Len(e) - 1)
         /\ v.signature[Len(e)] # e[Len(e)]


\* ------------------------------------------------------------------------
\* The choice of the model
\* ------------------------------------------------------------------------

\* C34: selectModel gives the faster model for every length below 50 and
\* the larger model for every length of 50 or more (49 the former, 50 the
\* latter), and both calls of one request are made with the model chosen
\* for the length of its message.
C34_ModelByLength ==
  /\ selectModel(49) = "anthropic/claude-sonnet-4-20250514"
  /\ selectModel(50) = "anthropic/claude-opus-4-20250514"
  /\ \A n \in 0..120 :
       selectModel(n) = IF n < 50 THEN "anthropic/claude-sonnet-4-20250514"
                        ELSE "anthropic/claude-opus-4-20250514"
  /\ \A r \in DReqs :
       h[r].invoked # <<>> =>
         /\ Len(h[r].invoked) = 2
         /\ h[r].invoked[1].model = h[r].invoked[2].model
         /\ h[r].invoked[1].model = IF Len(h[r].messageText) < 50 THEN "anthropic/claude-sonnet-4-20250514"
                                    ELSE "anthropic/claude-opus-4-20250514"

\* A request whose message has exactly 50 characters, both calls made with
\* the larger model.
C34_Witness ==
  \E r \in DReqs :
    /\ Len(h[r].messageText) = 50
    /\ Len(h[r].invoked) = 2
    /\ h[r].invoked[1].model = "anthropic/claude-opus-4-20250514"
    /\ h[r].invoked[1].system = "casual" /\ h[r].invoked[2].system = "formal"

====
